---- MODULE Spec2Model ----
(***************************************************************************)
(* A model of the relational-storage gateway of 04_gateways/database:      *)
(* SqliteDatabase (the handle), TransactionScope / Transaction (the scoped *)
(* guards), the bulk helpers, and the part of the native store (sqlite3)   *)
(* those handlers call.                                                    *)
(*                                                                         *)
(* Handlers are operators over a "world" record w (the handles' m_db       *)
(* fields, the native connections, the file's committed content, the live  *)
(* statement objects); a handler that can raise returns [w, err, val].     *)
(* An action of a specification applies one whole handler to the state.    *)
(***************************************************************************)
EXTENDS Integers, Sequences, FiniteSets, TLC

VARIABLES
  m_db,       \* [Handles -> ConnIds \cup {NULLPTR}]: SqliteDatabase::m_db
  live,       \* [Handles -> BOOLEAN]: the handle object exists
  wrote,      \* [Handles -> BOOLEAN]: the handle has inserted a row since it was made
  conn,       \* [ConnIds -> native connection record]
  disk,       \* committed content of the file-backed target
  stmts,      \* [ConnIds -> Nat]: live SqliteStatement objects per connection
  misuse,     \* a native call was made on a released connection
  overwrote,  \* sqlite3_open overwrote an m_db that still held a connection
  res,        \* the last operation, its arguments and what it raised or returned
  g_alive,    \* a guard object exists (the caller is inside its scope)
  g_kind,     \* "TransactionScope" | "Transaction"
  m_finished, \* TransactionScope::m_finished / Transaction::m_committed
  issued,     \* control statements issued to the database by the guard
  committed,  \* the guard's commit() has returned normally
  g_txn,      \* the transaction begun by the guard's constructor is active
  base,       \* committed content when the guard was constructed
  inside,     \* values of the rows written inside the guard's transaction
  inflight,   \* error propagating out of the guard's scope after its exit
  s_live,     \* [StmtIds -> BOOLEAN]: the SqliteStatement object exists
  m_stmt,     \* [StmtIds -> Rids \cup {NULLPTR}]: SqliteStatement::m_stmt
  vm,         \* [Rids -> compiled statement of the store (sqlite3_stmt)]
  s_db,       \* the connection SqliteStatement::m_db points to, and its table
  s_res,      \* the last statement operation and what it raised or returned
  cb,         \* circular_buffer_t and the storage array it points to
  cb_io,      \* bytes accepted by put and returned by get, and the last call
  thr,        \* the producer and the consumer thread inside put and get
  gpio_ports, \* gpio_ports[]: the simulated registers of the GPIO driver
  gpio_res    \* the last GPIO call and what it returned

vars == <<m_db, live, wrote, conn, disk, stmts, misuse, overwrote, res,
          g_alive, g_kind, m_finished, issued, committed, g_txn, base,
          inside, inflight, s_live, m_stmt, vm, s_db, s_res,
          cb, cb_io, thr, gpio_ports, gpio_res>>

labVars == <<cb, cb_io, thr, gpio_ports, gpio_res>>

stmtVars == <<s_live, m_stmt, vm, s_db, s_res>>

guardVars == <<g_alive, g_kind, m_finished, issued, committed, g_txn, base,
               inside, inflight>>

----------------------------------------------------------------------------
(* Bounds *)

MaxVal   == 2   \* column values are 1..MaxVal (the column is UNIQUE)
MaxBatch == 2   \* parameter sets per bulk call
MaxConns == 2   \* native connection objects in existence at one time
MaxStmts == 1   \* live statement objects per connection
MaxIssued == 2  \* COMMIT/ROLLBACK statements issued by one guard's commit()/rollback()
MaxRes   == 2   \* compiled statements of the store in existence at one time
MaxRows  == 2   \* rows of the table the statements work on
MaxCapacity == 2  \* bytes of the storage array handed to circular_buffer_init
MaxByte  == 1   \* bytes put into the buffer are 0..MaxByte
MaxPuts  == 4   \* bytes accepted by the buffer in one behaviour

NULLPTR == 0

Handles == {"db1", "db2"}
ConnIds == 1..MaxConns
Vals    == 1..MaxVal

FilePath   == "test.db"
MemoryPath == ":memory:"
BadPath    == "/nonexistent/path/to/database.db"
Paths      == {FilePath, MemoryPath, BadPath}

NoError         == "none"
ConnectionError == "ConnectionError"
QueryError      == "QueryError"

----------------------------------------------------------------------------
(* 98_lab/03_embedded_demo: the circular buffer. A handler takes the       *)
(* struct c (with its storage) and returns [cb, ret, out].                 *)

Bytes == 0..MaxByte
Slots == 0..(MaxCapacity - 1)

CbOut(c, ret, out) == [cb |-> c, ret |-> ret, out |-> out]

circular_buffer_init(c, hasBuffer, capacity) ==
  IF ~hasBuffer \/ capacity = 0 THEN CbOut(c, -1, 0)
  ELSE CbOut([buffer |-> [i \in Slots |-> IF i < capacity THEN 0 ELSE c.buffer[i]],
              capacity |-> capacity, head |-> 0, tail |-> 0, count |-> 0], 0, 0)

circular_buffer_put(c, data) ==
  IF c.count >= c.capacity THEN CbOut(c, -1, 0)
  ELSE CbOut([c EXCEPT !.buffer[c.head] = data,
                       !.head = (c.head + 1) % c.capacity,
                       !.count = c.count + 1], 0, 0)

\* Variant: get that hands out the byte written last.
get_returns_newest(c, hasData) ==
  IF ~hasData THEN CbOut(c, -1, 0)
  ELSE IF c.count = 0 THEN CbOut(c, -1, 0)
  ELSE CbOut([c EXCEPT !.tail = (c.tail + 1) % c.capacity,
                       !.count = c.count - 1],
             0, c.buffer[(c.tail + c.count - 1) % c.capacity])

\* Variant: get that fails only for a NULL output pointer.
get_without_empty_test(c, hasData) ==
  IF ~hasData THEN CbOut(c, -1, 0)
  ELSE CbOut([c EXCEPT !.tail = (c.tail + 1) % c.capacity,
                       !.count = IF c.count = 0 THEN 0 ELSE c.count - 1],
             0, c.buffer[c.tail])

\* hasData: the caller passes a non-NULL data pointer
circular_buffer_get(c, hasData) ==
  IF ~hasData THEN CbOut(c, -1, 0)
  ELSE IF c.count = 0 THEN CbOut(c, -1, 0)
  ELSE CbOut([c EXCEPT !.tail = (c.tail + 1) % c.capacity,
                       !.count = c.count - 1], 0, c.buffer[c.tail])

circular_buffer_is_empty(c)  == c.count = 0
circular_buffer_is_full(c)   == c.count >= c.capacity
circular_buffer_size(c)      == c.count
circular_buffer_available(c) == c.capacity - c.count

\* Variant: clear that rewinds head and tail and leaves count.
clear_keeps_count(c) ==
  CbOut([c EXCEPT !.head = 0, !.tail = 0], 0, 0)

circular_buffer_clear(c) ==
  CbOut([c EXCEPT !.head = 0, !.tail = 0, !.count = 0], 0, 0)

Threads == {"producer", "consumer"}

\* The buffer after circular_buffer_init with the whole storage array, no
\* byte accepted or returned yet, both threads outside the buffer's functions.
NoBuffer ==
  /\ cb = [buffer |-> [i \in Slots |-> 0], capacity |-> MaxCapacity,
           head |-> 0, tail |-> 0, count |-> 0]
  /\ cb_io = [accepted |-> <<>>, returned |-> <<>>, op |-> "init", arg |-> MaxCapacity,
              full |-> FALSE, empty |-> TRUE, ret |-> 0, out |-> 0]
  /\ thr = [pc |-> [t \in Threads |-> "idle"], data |-> 0, out |-> 0,
            reg |-> [t \in Threads |-> 0], puts |-> 0, gets |-> 0]

----------------------------------------------------------------------------
(* 98_lab/03_embedded_demo: the GPIO driver. A register is the set of the  *)
(* pins whose bit is set; a handler takes the array g of port registers    *)
(* and returns [g, ret, out].                                              *)

MAX_PORTS == 16
MAX_PINS  == 16
GPIO_LOW    == 0
GPIO_HIGH   == 1
GPIO_INPUT  == 0
GPIO_OUTPUT == 1

GOut(g, ret, out) == [g |-> g, ret |-> ret, out |-> out]

\* reg | pin_mask, reg & ~pin_mask
SetBit(reg, pin)   == reg \cup {pin}
ClearBit(reg, pin) == reg \ {pin}

\* hasConfig: the caller passes a non-NULL config pointer
gpio_init(g, hasConfig, port, pin, dir, pull_up) ==
  IF ~hasConfig THEN GOut(g, -1, 0)
  ELSE IF port >= MAX_PORTS \/ pin >= MAX_PINS THEN GOut(g, -1, 0)
  ELSE LET r  == g[port]
           r1 == [r EXCEPT !.direction = IF dir = GPIO_OUTPUT THEN SetBit(@, pin)
                                         ELSE ClearBit(@, pin)]
           r2 == IF pull_up
                 THEN [r1 EXCEPT !.pullup = SetBit(@, pin),
                                 !.input = IF dir = GPIO_INPUT THEN SetBit(@, pin) ELSE @]
                 ELSE [r1 EXCEPT !.pullup = ClearBit(@, pin)]
           r3 == IF dir = GPIO_OUTPUT THEN [r2 EXCEPT !.output = ClearBit(@, pin)] ELSE r2
       IN GOut([g EXCEPT ![port] = [r3 EXCEPT !.initialized = SetBit(@, pin)]], 0, 0)

\* Variant: gpio_write that does not test the direction of the pin.
write_without_direction_test(g, port, pin, state) ==
  IF port >= MAX_PORTS \/ pin >= MAX_PINS THEN GOut(g, -1, 0)
  ELSE IF pin \notin g[port].initialized THEN GOut(g, -1, 0)
  ELSE GOut([g EXCEPT ![port].output = IF state = GPIO_HIGH THEN SetBit(@, pin)
                                       ELSE ClearBit(@, pin)], 0, 0)

gpio_write(g, port, pin, state) ==
  IF port >= MAX_PORTS \/ pin >= MAX_PINS THEN GOut(g, -1, 0)
  ELSE IF pin \notin g[port].initialized THEN GOut(g, -1, 0)
  ELSE IF pin \notin g[port].direction THEN GOut(g, -1, 0)
  ELSE GOut([g EXCEPT ![port].output = IF state = GPIO_HIGH THEN SetBit(@, pin)
                                       ELSE ClearBit(@, pin)], 0, 0)

\* hasState: the caller passes a non-NULL state pointer
gpio_read(g, port, pin, hasState) ==
  IF port >= MAX_PORTS \/ pin >= MAX_PINS \/ ~hasState THEN GOut(g, -1, 0)
  ELSE IF pin \notin g[port].initialized THEN GOut(g, -1, 0)
  ELSE LET reg_value == IF pin \in g[port].direction THEN g[port].output
                        ELSE g[port].input
       IN GOut(g, 0, IF pin \in reg_value THEN GPIO_HIGH ELSE GPIO_LOW)

gpio_toggle(g, port, pin) ==
  LET rd == gpio_read(g, port, pin, TRUE)
  IN IF rd.ret # 0 THEN GOut(g, -1, 0)
     ELSE gpio_write(g, port, pin, IF rd.out = GPIO_HIGH THEN GPIO_LOW ELSE GPIO_HIGH)

gpio_simulate_input(g, port, pin, state) ==
  IF port < MAX_PORTS /\ pin < MAX_PINS
  THEN GOut([g EXCEPT ![port].input = IF state = GPIO_HIGH THEN SetBit(@, pin)
                                      ELSE ClearBit(@, pin)], 0, 0)
  ELSE GOut(g, 0, 0)

\* The static array gpio_ports is zero-initialised.
NoGpio ==
  /\ gpio_ports = [p \in 0..(MAX_PORTS - 1) |->
                     [direction |-> {}, output |-> {}, input |-> {}, pullup |-> {},
                      initialized |-> {}]]
  /\ gpio_res = [op |-> "", port |-> 0, pin |-> 0, state |-> 0, ret |-> 0, out |-> 0,
                 was |-> -1, level |-> -1]

NoLab == NoBuffer /\ NoGpio

----------------------------------------------------------------------------
(* The native store: what the sqlite3 calls made by the gateway do.        *)

\* SQL texts the callers pass, by what they are to the store.
Sql(k, v) == [k |-> k, v |-> v]
BeginSql    == Sql("BEGIN", 0)
CommitSql   == Sql("COMMIT", 0)
RollbackSql == Sql("ROLLBACK", 0)
FkSql(b)    == Sql(IF b THEN "FK_ON" ELSE "FK_OFF", 0)
JournalSql  == Sql("JOURNAL", 0)
SelectSql   == Sql("SELECT", 0)   \* with a parameter: ... WHERE v = ?
SelectGeSql == Sql("SELECT", 1)   \* SELECT v FROM t WHERE v >= ?
InvalidSql  == Sql("INVALID", 0)
InsertSql(v) == Sql("INSERT", v)
DeleteSql(v) == Sql("DELETE", v)
UpdateSql(v) == Sql("UPDATE", v)   \* UPDATE t SET v = NULL WHERE v = ?
\* INSERT OR REPLACE INTO timeseries ...: v is the point's key; 0 stands for
\* a point whose asset or unit does not exist.
ReplaceSql(v) == Sql("REPLACE", v)

\* Entries of ev for sqlite3_prepare_v2 and sqlite3_finalize.
Compiled  == Sql("prepare", 0)
Finalized == Sql("finalize", 0)

FreeConn == [st |-> "free", path |-> "", txn |-> FALSE, tbl |-> <<>>,
             saved |-> <<>>, rowid |-> 0, changes |-> 0, fk |-> FALSE]
ReleasedConn == [FreeConn EXCEPT !.st = "closed"]

\* A table is a sequence of rows [id, v] in rowid order.
RowVals(t) == {t[i].v : i \in 1..Len(t)}
RECURSIVE MaxId(_)
MaxId(t) == IF t = <<>> THEN 0
            ELSE LET m == MaxId(Tail(t)) IN IF Head(t).id > m THEN Head(t).id ELSE m
RECURSIVE Without(_, _)
Without(t, v) == IF t = <<>> THEN <<>>
                 ELSE IF Head(t).v = v THEN Without(Tail(t), v)
                 ELSE <<Head(t)>> \o Without(Tail(t), v)
RECURSIVE ValsOf(_)
ValsOf(t) == IF t = <<>> THEN <<>> ELSE <<Head(t).v>> \o ValsOf(Tail(t))

HasFresh(w) == \E c \in ConnIds : w.conn[c].st = "free"
Fresh(w) == CHOOSE c \in ConnIds :
              /\ w.conn[c].st = "free"
              /\ \A d \in ConnIds : w.conn[d].st = "free" => c <= d

\* sqlite3_open(path, &m_db): outcome "ok", "cantopen" (a connection object in
\* the error state is still handed out) or "nomem" (m_db is set to NULL).
sqlite3_open(w, h, p, outcome) ==
  LET c  == Fresh(w)
      ow == w.overwrote \/ w.m_db[h] # NULLPTR
  IN IF outcome = "nomem"
     THEN [w |-> [w EXCEPT !.m_db[h] = NULLPTR, !.overwrote = ow], rc |-> "NOMEM"]
     ELSE [w |-> [w EXCEPT !.m_db[h] = c, !.overwrote = ow,
                           !.conn[c] = [FreeConn EXCEPT
                                          !.st = "open", !.path = p,
                                          !.tbl = IF p = FilePath /\ outcome = "ok"
                                                  THEN w.disk ELSE <<>>]],
           rc |-> IF outcome = "ok" THEN "OK" ELSE "CANTOPEN"]

\* sqlite3_close(db): refuses (SQLITE_BUSY) while statements are unfinalized;
\* an open transaction is rolled back with the connection.
sqlite3_close(w, c) ==
  IF w.conn[c].st # "open" THEN [w EXCEPT !.misuse = TRUE]
  ELSE IF w.stmts[c] > 0 THEN w
  ELSE [w EXCEPT !.conn[c] = ReleasedConn]

\* One SQL text run to completion on connection c (sqlite3_exec, or a prepared
\* statement stepped to SQLITE_DONE). cf: the store fails this COMMIT.
StoreRun(w0, c, sql, cf) ==
  LET w  == [w0 EXCEPT !.ev = Append(@, sql)]
      k  == sql.k
      cn == w.conn[c]
      persist(t) == IF cn.path = FilePath /\ ~cn.txn THEN t ELSE w.disk
  IN IF cn.st # "open" THEN [w |-> [w EXCEPT !.misuse = TRUE], rc |-> "MISUSE"]
     ELSE IF cn.path = BadPath THEN [w |-> w, rc |-> "CANTOPEN"]
     ELSE CASE k = "INVALID" -> [w |-> w, rc |-> "ERROR"]
       [] k = "BEGIN" ->
            IF cn.txn THEN [w |-> w, rc |-> "ERROR"]
            ELSE [w |-> [w EXCEPT !.conn[c].txn = TRUE, !.conn[c].saved = cn.tbl],
                  rc |-> "OK"]
       [] k = "COMMIT" ->
            IF ~cn.txn THEN [w |-> w, rc |-> "ERROR"]
            ELSE IF cf THEN [w |-> w, rc |-> "BUSY"]
            ELSE [w |-> [w EXCEPT !.conn[c].txn = FALSE, !.conn[c].saved = <<>>,
                                  !.disk = IF cn.path = FilePath THEN cn.tbl ELSE w.disk],
                  rc |-> "OK"]
       [] k = "ROLLBACK" ->
            IF ~cn.txn THEN [w |-> w, rc |-> "ERROR"]
            ELSE [w |-> [w EXCEPT !.conn[c].txn = FALSE, !.conn[c].saved = <<>>,
                                  !.conn[c].tbl = cn.saved],
                  rc |-> "OK"]
       [] k \in {"FK_ON", "FK_OFF"} ->
            \* PRAGMA foreign_keys is a no-op inside a transaction
            [w |-> IF cn.txn THEN w ELSE [w EXCEPT !.conn[c].fk = (k = "FK_ON")],
             rc |-> "OK"]
       [] k \in {"JOURNAL", "SELECT"} -> [w |-> w, rc |-> "OK"]
       [] k = "INSERT" ->
            \* v is UNIQUE; 0 stands for NULL, which never conflicts
            IF sql.v # 0 /\ sql.v \in RowVals(cn.tbl) THEN [w |-> w, rc |-> "CONSTRAINT"]
            ELSE LET id == MaxId(cn.tbl) + 1
                     t  == Append(cn.tbl, [id |-> id, v |-> sql.v])
                 IN [w |-> [w EXCEPT !.conn[c].tbl = t, !.conn[c].rowid = id,
                                     !.conn[c].changes = 1, !.disk = persist(t)],
                     rc |-> "OK"]
       [] k = "REPLACE" ->
            \* a foreign key without its parent fails while enforcement is on;
            \* a row with the same key is deleted before the new one goes in
            IF sql.v = 0 /\ cn.fk THEN [w |-> w, rc |-> "CONSTRAINT"]
            ELSE LET id == MaxId(cn.tbl) + 1
                     t  == Append(Without(cn.tbl, sql.v), [id |-> id, v |-> sql.v])
                 IN [w |-> [w EXCEPT !.conn[c].tbl = t, !.conn[c].rowid = id,
                                     !.conn[c].changes = 1, !.disk = persist(t)],
                     rc |-> "OK"]
       [] k = "UPDATE" ->
            LET hit(i) == sql.v # 0 /\ cn.tbl[i].v = sql.v
                t == [i \in 1..Len(cn.tbl) |->
                        IF hit(i) THEN [cn.tbl[i] EXCEPT !.v = 0] ELSE cn.tbl[i]]
            IN [w |-> [w EXCEPT !.conn[c].tbl = t,
                                !.conn[c].changes = Cardinality({i \in 1..Len(cn.tbl) : hit(i)}),
                                !.disk = persist(t)],
                rc |-> "OK"]
       [] k = "DELETE" ->
            LET t == Without(cn.tbl, sql.v)
            IN [w |-> [w EXCEPT !.conn[c].tbl = t,
                                !.conn[c].changes = Len(cn.tbl) - Len(t),
                                !.disk = persist(t)],
                rc |-> "OK"]

sqlite3_exec(w, c, sql, cf) == StoreRun(w, c, sql, cf)

----------------------------------------------------------------------------
(* SqliteDatabase                                                          *)

\* ev: the calls one operation has made into the store so far, in order
\* (the SQL texts run, statements compiled and finalized); empty when an
\* operation starts.
World == [m_db |-> m_db, conn |-> conn, disk |-> disk, stmts |-> stmts,
          misuse |-> misuse, overwrote |-> overwrote, ev |-> <<>>]

\* The memory of a released connection that nothing refers to any more goes
\* back to the allocator.
Recycled(w) ==
  [c \in ConnIds |->
     IF w.conn[c].st = "closed" /\ w.stmts[c] = 0 /\ \A h \in Handles : w.m_db[h] # c
     THEN FreeConn ELSE w.conn[c]]

Install(w) ==
  /\ m_db' = w.m_db
  /\ conn' = Recycled(w)
  /\ disk' = w.disk
  /\ stmts' = w.stmts
  /\ misuse' = w.misuse
  /\ overwrote' = w.overwrote
  /\ UNCHANGED <<stmtVars, labVars>>

Ok(w)        == [w |-> w, err |-> NoError, val |-> 0]
Raise(w, e)  == [w |-> w, err |-> e, val |-> 0]
Ret(w, v)    == [w |-> w, err |-> NoError, val |-> v]

isOpen(w, h) == w.m_db[h] # NULLPTR

\* Variant: close() that releases the connection but keeps the pointer.
close_keeps_pointer(w, h) ==
  IF w.m_db[h] # NULLPTR THEN sqlite3_close(w, w.m_db[h]) ELSE w

\* Variant: close() that finalizes the statements of the connection first.
close_finalizes_statements(w, h) ==
  IF w.m_db[h] # NULLPTR
  THEN [sqlite3_close([w EXCEPT !.stmts[w.m_db[h]] = 0], w.m_db[h])
          EXCEPT !.m_db[h] = NULLPTR]
  ELSE w

SqliteDatabase_close(w, h) ==
  IF w.m_db[h] # NULLPTR
  THEN [sqlite3_close(w, w.m_db[h]) EXCEPT !.m_db[h] = NULLPTR]
  ELSE w

\* Variant: execute() that reports a closed handle as a query failure.
execute_closed_as_query_error(w, h, sql, cf) ==
  IF w.m_db[h] = NULLPTR THEN Raise(w, QueryError)
  ELSE LET r == sqlite3_exec(w, w.m_db[h], sql, cf)
       IN IF r.rc # "OK" THEN Raise(r.w, QueryError) ELSE Ok(r.w)

SqliteDatabase_execute(w, h, sql, cf) ==
  IF w.m_db[h] = NULLPTR THEN Raise(w, ConnectionError)
  ELSE LET r == sqlite3_exec(w, w.m_db[h], sql, cf)
       IN IF r.rc # "OK" THEN Raise(r.w, QueryError) ELSE Ok(r.w)

SqliteDatabase_enableForeignKeys(w, h, enable) ==
  SqliteDatabase_execute(w, h, FkSql(enable), FALSE)

SqliteDatabase_setJournalMode(w, h) ==
  SqliteDatabase_execute(w, h, JournalSql, FALSE)

\* Variant: open() that does not close the connection it already has.
open_without_close(w, h, p, outcome) ==
  LET r == sqlite3_open(w, h, p, outcome)
  IN IF r.rc # "OK"
     THEN Raise(IF r.w.m_db[h] # NULLPTR
                THEN [sqlite3_close(r.w, r.w.m_db[h]) EXCEPT !.m_db[h] = NULLPTR]
                ELSE r.w,
                ConnectionError)
     ELSE SqliteDatabase_enableForeignKeys(r.w, h, TRUE)

\* Variant: open() that keeps the connection object of a failed sqlite3_open.
open_keeps_failed(w, h, p, outcome) ==
  LET w1 == IF w.m_db[h] # NULLPTR THEN SqliteDatabase_close(w, h) ELSE w
      r  == sqlite3_open(w1, h, p, outcome)
  IN IF r.rc # "OK" THEN Raise(r.w, ConnectionError)
     ELSE SqliteDatabase_enableForeignKeys(r.w, h, TRUE)

\* Variant: open() that leaves the new connection's settings as they are.
open_without_foreign_keys(w, h, p, outcome) ==
  LET w1 == IF w.m_db[h] # NULLPTR THEN SqliteDatabase_close(w, h) ELSE w
      r  == sqlite3_open(w1, h, p, outcome)
  IN IF r.rc # "OK"
     THEN Raise(IF r.w.m_db[h] # NULLPTR
                THEN [sqlite3_close(r.w, r.w.m_db[h]) EXCEPT !.m_db[h] = NULLPTR]
                ELSE r.w,
                ConnectionError)
     ELSE Ok(r.w)

SqliteDatabase_open(w, h, p, outcome) ==
  LET w1 == IF w.m_db[h] # NULLPTR THEN SqliteDatabase_close(w, h) ELSE w
      r  == sqlite3_open(w1, h, p, outcome)
  IN IF r.rc # "OK"
     THEN Raise(IF r.w.m_db[h] # NULLPTR
                THEN [sqlite3_close(r.w, r.w.m_db[h]) EXCEPT !.m_db[h] = NULLPTR]
                ELSE r.w,
                ConnectionError)
     ELSE SqliteDatabase_enableForeignKeys(r.w, h, TRUE)

\* Variant: prepare() that leaves a statement behind when compiling fails.
prepare_leaks_on_error(w, h, sql) ==
  IF w.m_db[h] = NULLPTR THEN Raise(w, ConnectionError)
  ELSE LET c == w.m_db[h]
       IN IF w.conn[c].st # "open" THEN Raise([w EXCEPT !.misuse = TRUE], QueryError)
          ELSE IF sql.k = "INVALID" \/ w.conn[c].path = BadPath
          THEN Raise([w EXCEPT !.stmts[c] = @ + 1], QueryError)
          ELSE Ok([w EXCEPT !.stmts[c] = @ + 1, !.ev = Append(@, Compiled)])

\* SqliteStatement(db, sql): compiles; a text that does not compile raises and
\* leaves no statement object.
SqliteDatabase_prepare(w, h, sql) ==
  IF w.m_db[h] = NULLPTR THEN Raise(w, ConnectionError)
  ELSE LET c == w.m_db[h]
       IN IF w.conn[c].st # "open" THEN Raise([w EXCEPT !.misuse = TRUE], QueryError)
          ELSE IF sql.k = "INVALID" \/ w.conn[c].path = BadPath THEN Raise(w, QueryError)
          ELSE Ok([w EXCEPT !.stmts[c] = @ + 1, !.ev = Append(@, Compiled)])

\* ~SqliteStatement of a statement compiled on connection c
SqliteStatement_dtor(w, c) == [w EXCEPT !.stmts[c] = @ - 1, !.ev = Append(@, Finalized)]

\* query: prepare, execute() to completion, the statement dies on return
SqliteDatabase_query(w, h, sql) ==
  LET p == SqliteDatabase_prepare(w, h, sql)
  IN IF p.err # NoError THEN p
     ELSE LET c == p.w.m_db[h]
              r == StoreRun(p.w, c, sql, FALSE)
              w2 == SqliteStatement_dtor(r.w, c)
          IN IF r.rc # "OK" THEN Raise(w2, QueryError)
             ELSE Ret(w2, IF sql.k = "SELECT" THEN ValsOf(r.w.conn[c].tbl) ELSE <<>>)

SqliteDatabase_beginTransaction(w, h) == SqliteDatabase_execute(w, h, BeginSql, FALSE)
SqliteDatabase_commit(w, h, cf)       == SqliteDatabase_execute(w, h, CommitSql, cf)
SqliteDatabase_rollback(w, h)         == SqliteDatabase_execute(w, h, RollbackSql, FALSE)

\* Variant: lastInsertRowId() that answers -1 on a closed handle.
lastInsertRowId_closed_minus_one(w, h) ==
  IF w.m_db[h] # NULLPTR THEN w.conn[w.m_db[h]].rowid ELSE -1

SqliteDatabase_lastInsertRowId(w, h) ==
  IF w.m_db[h] # NULLPTR THEN w.conn[w.m_db[h]].rowid ELSE 0

SqliteDatabase_changesCount(w, h) ==
  IF w.m_db[h] # NULLPTR THEN w.conn[w.m_db[h]].changes ELSE 0

SqliteDatabase_moveCtor(w, h, other) ==
  [w EXCEPT !.m_db[h] = w.m_db[other], !.m_db[other] = NULLPTR]

\* Variant: move-assignment that does not close what the target held.
moveAssign_without_close(w, h, other) ==
  IF h # other
  THEN [w EXCEPT !.m_db[h] = w.m_db[other], !.m_db[other] = NULLPTR]
  ELSE w

SqliteDatabase_moveAssign(w, h, other) ==
  IF h # other
  THEN LET w1 == SqliteDatabase_close(w, h)
       IN [w1 EXCEPT !.m_db[h] = w1.m_db[other], !.m_db[other] = NULLPTR]
  ELSE w

SqliteDatabase_dtor(w, h) == SqliteDatabase_close(w, h)

----------------------------------------------------------------------------
(* TransactionScope (sqlite3_database_connector.cc) and Transaction        *)
(* (database_connector.h). A handler returns the world, the error it       *)
(* raises, the guard's flag, and the control statements it issued (log).   *)

\* execute() hands a control statement to the store only on an open handle.
Issued(w, h, stmt) == IF w.m_db[h] # NULLPTR THEN <<stmt>> ELSE <<>>

\* Variant: a constructor that swallows the failure of its BEGIN.
ctor_swallows_failure(w, h) ==
  LET r == SqliteDatabase_beginTransaction(w, h)
  IN [w |-> r.w, err |-> NoError, fin |-> FALSE, log |-> Issued(w, h, "BEGIN")]

TransactionScope_ctor(w, h) ==
  LET r == SqliteDatabase_beginTransaction(w, h)
  IN [w |-> r.w, err |-> r.err, fin |-> FALSE, log |-> Issued(w, h, "BEGIN")]

\* Variant: a destructor that leaves the transaction alone.
dtor_without_rollback(w, h, fin) ==
  [w |-> w, err |-> NoError, log |-> <<>>, swallowed |-> NoError]

\* Variant: a destructor that commits an unfinished guard.
dtor_commits(w, h, fin) ==
  IF ~fin
  THEN LET r == SqliteDatabase_commit(w, h, FALSE)
       IN [w |-> r.w, err |-> NoError, log |-> Issued(w, h, "COMMIT"),
           swallowed |-> r.err]
  ELSE [w |-> w, err |-> NoError, log |-> <<>>, swallowed |-> NoError]

\* Variant: a destructor that rolls back whatever the flag says.
dtor_always_rollback(w, h, fin) ==
  LET r == SqliteDatabase_rollback(w, h)
  IN [w |-> r.w, err |-> NoError, log |-> Issued(w, h, "ROLLBACK"),
      swallowed |-> r.err]

\* Variant: a destructor without the catch-all around rollback().
dtor_propagates(w, h, fin) ==
  IF ~fin
  THEN LET r == SqliteDatabase_rollback(w, h)
       IN [w |-> r.w, err |-> r.err, log |-> Issued(w, h, "ROLLBACK"),
           swallowed |-> NoError]
  ELSE [w |-> w, err |-> NoError, log |-> <<>>, swallowed |-> NoError]

TransactionScope_dtor(w, h, fin) ==
  IF ~fin
  THEN LET r == SqliteDatabase_rollback(w, h)
       IN [w |-> r.w, err |-> NoError, log |-> Issued(w, h, "ROLLBACK"),
           swallowed |-> r.err]
  ELSE [w |-> w, err |-> NoError, log |-> <<>>, swallowed |-> NoError]

\* Variant: commit() that sets the flag before it knows COMMIT succeeded.
commit_sets_flag_first(w, h, fin, cf) ==
  LET r == SqliteDatabase_commit(w, h, cf)
  IN [w |-> r.w, err |-> r.err, fin |-> TRUE, log |-> Issued(w, h, "COMMIT")]

TransactionScope_commit(w, h, fin, cf) ==
  LET r == SqliteDatabase_commit(w, h, cf)
  IN [w |-> r.w, err |-> r.err, fin |-> IF r.err = NoError THEN TRUE ELSE fin,
      log |-> Issued(w, h, "COMMIT")]

TransactionScope_rollback(w, h, fin) ==
  LET r == SqliteDatabase_rollback(w, h)
  IN [w |-> r.w, err |-> r.err, fin |-> IF r.err = NoError THEN TRUE ELSE fin,
      log |-> Issued(w, h, "ROLLBACK")]

Transaction_ctor(w, h) ==
  LET r == SqliteDatabase_beginTransaction(w, h)
  IN [w |-> r.w, err |-> r.err, fin |-> FALSE, log |-> Issued(w, h, "BEGIN")]

Transaction_dtor(w, h, fin) ==
  IF ~fin
  THEN LET r == SqliteDatabase_rollback(w, h)
       IN [w |-> r.w, err |-> NoError, log |-> Issued(w, h, "ROLLBACK"),
           swallowed |-> r.err]
  ELSE [w |-> w, err |-> NoError, log |-> <<>>, swallowed |-> NoError]

Transaction_commit(w, h, fin, cf) ==
  LET r == SqliteDatabase_commit(w, h, cf)
  IN [w |-> r.w, err |-> r.err, fin |-> IF r.err = NoError THEN TRUE ELSE fin,
      log |-> Issued(w, h, "COMMIT")]

----------------------------------------------------------------------------
(* Bulk helpers. The statement has ParamCount parameters; a parameter set  *)
(* is a sequence of values bound to indices 1, 2, ...                      *)

Columns == <<"v">>
ParamCount == Len(Columns)

\* Variant: executeBatch that returns the count of its last execution.
RECURSIVE executeBatch_counts_last(_, _, _, _, _, _)
executeBatch_counts_last(w, c, k, paramSets, i, total) ==
  IF i > Len(paramSets) THEN Ret(w, total)
  ELSE LET params == paramSets[i]
       IN IF Len(params) > ParamCount THEN Raise(w, QueryError)
          ELSE LET r == StoreRun(w, c, Sql(k, IF params = <<>> THEN 0 ELSE params[1]), FALSE)
               IN IF r.rc # "OK" THEN Raise(r.w, QueryError)
                  ELSE executeBatch_counts_last(r.w, c, k, paramSets, i + 1,
                                                r.w.conn[c].changes)

\* Variant: executeBatch that goes on with the next set when one fails.
RECURSIVE executeBatch_skips_failed(_, _, _, _, _, _)
executeBatch_skips_failed(w, c, k, paramSets, i, total) ==
  IF i > Len(paramSets) THEN Ret(w, total)
  ELSE LET params == paramSets[i]
       IN IF Len(params) > ParamCount
          THEN executeBatch_skips_failed(w, c, k, paramSets, i + 1, total)
          ELSE LET r == StoreRun(w, c, Sql(k, IF params = <<>> THEN 0 ELSE params[1]), FALSE)
               IN executeBatch_skips_failed(r.w, c, k, paramSets, i + 1,
                    IF r.rc = "OK" THEN total + r.w.conn[c].changes ELSE total)

\* SqliteStatement::executeBatch on connection c for statement kind k, from
\* set number i on; total is totalChanges so far.
RECURSIVE SqliteStatement_executeBatch(_, _, _, _, _, _)
SqliteStatement_executeBatch(w, c, k, paramSets, i, total) ==
  IF i > Len(paramSets) THEN Ret(w, total)
  ELSE LET params == paramSets[i]
       IN IF Len(params) > ParamCount THEN Raise(w, QueryError)   \* bind: SQLITE_RANGE
          ELSE LET r == StoreRun(w, c, Sql(k, IF params = <<>> THEN 0 ELSE params[1]), FALSE)
               IN IF r.rc # "OK" THEN Raise(r.w, QueryError)
                  ELSE SqliteStatement_executeBatch(r.w, c, k, paramSets, i + 1,
                                                    total + r.w.conn[c].changes)

\* The common body of bulkInsert and bulkExecute after the empty-input test:
\* prepare; transaction(); executeBatch; txn.commit(); then ~txn, ~stmt.
\* The result carries the control statements issued on the way (log).
Bulk(r, log) == [w |-> r.w, err |-> r.err, val |-> r.val, log |-> log]

\* Variant: the batch run without a transaction around it.
BulkBody_without_transaction(w, h, sql, paramSets, cf) ==
  LET p == SqliteDatabase_prepare(w, h, sql)
  IN IF p.err # NoError THEN Bulk(p, <<>>)
     ELSE LET c == p.w.m_db[h]
              b == SqliteStatement_executeBatch(p.w, c, sql.k, paramSets, 1, 0)
          IN Bulk([b EXCEPT !.w = SqliteStatement_dtor(b.w, c)], <<>>)

\* A caller's own batch, as in the test StatementExecuteBatch: prepare(sql),
\* executeBatch(paramSets) on the statement, and the statement destroyed.
StatementExecuteBatch(w, h, sql, paramSets) ==
  LET p == SqliteDatabase_prepare(w, h, sql)
  IN IF p.err # NoError THEN Bulk(p, <<>>)
     ELSE LET c == p.w.m_db[h]
              b == SqliteStatement_executeBatch(p.w, c, sql.k, paramSets, 1, 0)
          IN Bulk([b EXCEPT !.w = SqliteStatement_dtor(b.w, c)], <<>>)

\* The function is left, by return or by throw: ~txn has run (d), then ~stmt.
BulkLeave(d, c, err, val, log) ==
  [w |-> SqliteStatement_dtor(d.w, c), err |-> err,
   val |-> IF err = NoError THEN val ELSE 0, log |-> log \o d.log]

\* txn.commit() has run (m); return totalInserted or let the error out.
BulkCommitted(m, h, c, val, log) ==
  BulkLeave(TransactionScope_dtor(m.w, h, m.fin), c, m.err, val, log \o m.log)

\* Variant: on a failed batch the statement is finalized before the guard
\* rolls back.
BulkExecuted_finalizes_first(b, t, h, c, cf) ==
  IF b.err # NoError
  THEN LET d == TransactionScope_dtor(SqliteStatement_dtor(b.w, c), h, t.fin)
       IN [w |-> d.w, err |-> b.err, val |-> 0, log |-> t.log \o d.log]
  ELSE BulkCommitted(TransactionScope_commit(b.w, h, t.fin, cf), h, c, b.val, t.log)

\* executeBatch has run (b) inside the guard t.
BulkExecuted(b, t, h, c, cf) ==
  IF b.err # NoError
  THEN BulkLeave(TransactionScope_dtor(b.w, h, t.fin), c, b.err, 0, t.log)
  ELSE BulkCommitted(TransactionScope_commit(b.w, h, t.fin, cf), h, c, b.val, t.log)

\* auto txn = transaction() has run (t) on the connection c of the statement.
\* Variant: a failed transaction() answered by rolling back and going on.
BulkBegun_rolls_back_outer(t, h, c, sql, paramSets, cf) ==
  IF t.err # NoError
  THEN LET d == TransactionScope_dtor(t.w, h, FALSE)
       IN Bulk(Raise(SqliteStatement_dtor(d.w, c), t.err), t.log \o d.log)
  ELSE BulkExecuted(SqliteStatement_executeBatch(t.w, c, sql.k, paramSets, 1, 0),
                    t, h, c, cf)

BulkBegun(t, h, c, sql, paramSets, cf) ==
  IF t.err # NoError THEN Bulk(Raise(SqliteStatement_dtor(t.w, c), t.err), t.log)
  ELSE BulkExecuted(SqliteStatement_executeBatch(t.w, c, sql.k, paramSets, 1, 0),
                    t, h, c, cf)

\* auto stmt = prepare(sql) has run (p).
BulkPrepared(p, h, sql, paramSets, cf) ==
  IF p.err # NoError THEN Bulk(p, <<>>)
  ELSE BulkBegun(TransactionScope_ctor(p.w, h), h, p.w.m_db[h], sql, paramSets, cf)

BulkBody(w, h, sql, paramSets, cf) ==
  BulkPrepared(SqliteDatabase_prepare(w, h, sql), h, sql, paramSets, cf)

\* tableOk: the table and column names given to bulkInsert exist.
SqliteDatabase_bulkInsert(w, h, tableOk, rows, cf) ==
  IF rows = <<>> THEN Bulk(Ret(w, 0), <<>>)
  ELSE BulkBody(w, h, IF tableOk THEN InsertSql(0) ELSE InvalidSql, rows, cf)

SqliteDatabase_bulkExecute(w, h, sql, paramSets, cf) ==
  IF paramSets = <<>> THEN Bulk(Ret(w, 0), <<>>)
  ELSE BulkBody(w, h, sql, paramSets, cf)

----------------------------------------------------------------------------
(* TimeSeriesRepository (timeseries_repository.cc), on the handle h it     *)
(* holds as m_db. A point is given by its key.                             *)

\* The loop of addPoints on the statement compiled on connection c, from
\* point number i on: reset, bind the four columns, executeInsert.
RECURSIVE AddPointsLoop(_, _, _, _)
AddPointsLoop(w, c, points, i) ==
  IF i > Len(points) THEN Ok(w)
  ELSE LET r == StoreRun(w, c, ReplaceSql(points[i][1]), FALSE)
       IN IF r.rc # "OK" THEN Raise(r.w, QueryError)
          ELSE AddPointsLoop(r.w, c, points, i + 1)

\* Variant: addPoints without the catch clause that rolls back.
addPoints_without_rollback(w, h, points, cf) ==
  IF points = <<>> THEN Bulk(Ok(w), <<>>)
  ELSE LET p == SqliteDatabase_prepare(w, h, ReplaceSql(0))
       IN IF p.err # NoError THEN Bulk(p, <<>>)
          ELSE LET c == p.w.m_db[h]
                   b == SqliteDatabase_beginTransaction(p.w, h)
               IN IF b.err # NoError
                  THEN Bulk(Raise(SqliteStatement_dtor(b.w, c), b.err), <<"BEGIN">>)
                  ELSE LET l == AddPointsLoop(b.w, c, points, 1)
                           m == IF l.err = NoError THEN SqliteDatabase_commit(l.w, h, cf)
                                ELSE l
                       IN Bulk([m EXCEPT !.w = SqliteStatement_dtor(m.w, c)],
                               IF l.err = NoError THEN <<"BEGIN", "COMMIT">>
                               ELSE <<"BEGIN">>)

\* addPoints(points): prepare, beginTransaction, the loop and commit inside
\* try; catch (...) { m_db.rollback(); throw; }; the statement dies on the
\* way out. An error raised by rollback() in the handler replaces the one
\* being handled.
TimeSeriesRepository_addPoints(w, h, points, cf) ==
  IF points = <<>> THEN Bulk(Ok(w), <<>>)
  ELSE LET p == SqliteDatabase_prepare(w, h, ReplaceSql(0))
       IN IF p.err # NoError THEN Bulk(p, <<>>)
          ELSE LET c == p.w.m_db[h]
                   b == SqliteDatabase_beginTransaction(p.w, h)
               IN IF b.err # NoError
                  THEN Bulk(Raise(SqliteStatement_dtor(b.w, c), b.err), <<"BEGIN">>)
                  ELSE LET l == AddPointsLoop(b.w, c, points, 1)
                           m == IF l.err = NoError THEN SqliteDatabase_commit(l.w, h, cf)
                                ELSE l
                           log == IF l.err = NoError THEN <<"BEGIN", "COMMIT">>
                                  ELSE <<"BEGIN">>
                       IN IF m.err = NoError
                          THEN Bulk(Ok(SqliteStatement_dtor(m.w, c)), log)
                          ELSE LET rb == SqliteDatabase_rollback(m.w, h)
                               IN Bulk(Raise(SqliteStatement_dtor(rb.w, c),
                                             IF rb.err # NoError THEN rb.err ELSE m.err),
                                       log \o <<"ROLLBACK">>)

\* Variant: the loop of bulkSelect putting each execution's rows in front.
RECURSIVE BulkSelectSets_prepending(_, _, _, _, _, _)
BulkSelectSets_prepending(w, c, sql, paramSets, i, combined) ==
  IF i > Len(paramSets) THEN Ret(w, combined)
  ELSE LET params == paramSets[i]
           match(v) == /\ params # <<>>
                       /\ IF sql.v = 1 THEN v >= params[1] ELSE v = params[1]
       IN IF Len(params) > ParamCount THEN Raise(w, QueryError)
          ELSE LET r == StoreRun(w, c, sql, FALSE)
               IN IF r.rc # "OK" THEN Raise(r.w, QueryError)
                  ELSE BulkSelectSets_prepending(r.w, c, sql, paramSets, i + 1,
                         SelectSeq(ValsOf(r.w.conn[c].tbl), match) \o combined)

\* The loop of bulkSelect over a SELECT with one parameter, from set number
\* i on: reset, bindValue, execute; combined is combinedResults so far. The
\* store produces the matching rows in rowid order.
RECURSIVE BulkSelectSets(_, _, _, _, _, _)
BulkSelectSets(w, c, sql, paramSets, i, combined) ==
  IF i > Len(paramSets) THEN Ret(w, combined)
  ELSE LET params == paramSets[i]
           match(v) == /\ params # <<>>
                       /\ IF sql.v = 1 THEN v >= params[1] ELSE v = params[1]
       IN IF Len(params) > ParamCount THEN Raise(w, QueryError)   \* bind: SQLITE_RANGE
          ELSE LET r == StoreRun(w, c, sql, FALSE)
               IN IF r.rc # "OK" THEN Raise(r.w, QueryError)
                  ELSE BulkSelectSets(r.w, c, sql, paramSets, i + 1,
                                      combined \o SelectSeq(ValsOf(r.w.conn[c].tbl), match))

\* Variant: bulkSelect without the test for empty input.
bulkSelect_without_empty_test(w, h, sql, paramSets) ==
  LET p == SqliteDatabase_prepare(w, h, sql)
  IN IF p.err # NoError THEN Bulk(p, <<>>)
     ELSE LET c == p.w.m_db[h]
              r == BulkSelectSets(p.w, c, sql, paramSets, 1, <<>>)
          IN Bulk([r EXCEPT !.w = SqliteStatement_dtor(r.w, c)], <<>>)

\* bulkSelect: prepare, the loop, then ~stmt; it issues no control statement.
SqliteDatabase_bulkSelect(w, h, sql, paramSets) ==
  IF paramSets = <<>> THEN Bulk(Ret(w, <<>>), <<>>)
  ELSE LET p == SqliteDatabase_prepare(w, h, sql)
       IN IF p.err # NoError THEN Bulk(p, <<>>)
          ELSE LET c == p.w.m_db[h]
                   r == BulkSelectSets(p.w, c, sql, paramSets, 1, <<>>)
               IN Bulk([r EXCEPT !.w = SqliteStatement_dtor(r.w, c)], <<>>)

----------------------------------------------------------------------------
(* SqliteStatement: the statement objects, the compiled statements of the  *)
(* store they own, and the open connection they were prepared on, with the *)
(* table  t (id INTEGER PRIMARY KEY, value UNIQUE).  The column has no     *)
(* declared type, so the store keeps a value as it was bound.              *)

StmtIds == {"s1", "s2"}
Rids == 1..MaxRes

\* DbValue: the active variant t and the content v: the characters of a text
\* (0 is the NUL character), the bytes of a blob, the number of an integer or
\* a float (the two numbers differ, so no two values are equal to the store).
DbValue(t, v) == [t |-> t, v |-> v]
Null == DbValue("null", <<>>)
DbValues == {Null, DbValue("integer", <<1>>), DbValue("float", <<2>>),
             DbValue("text", <<>>), DbValue("text", <<1>>), DbValue("text", <<1, 0, 1>>),
             DbValue("blob", <<>>), DbValue("blob", <<0, 1>>)}

\* The characters of a C string: those before the first NUL.
RECURSIVE UpToNul(_)
UpToNul(v) == IF v = <<>> \/ Head(v) = 0 THEN <<>> ELSE <<Head(v)>> \o UpToNul(Tail(v))

StmtWorld == [m_stmt |-> m_stmt, vm |-> vm, db |-> s_db]

\* What a statement operation raised (err) or returned: val, rows, or for
\* bind the statement itself (ret).
SOut(x, err, val, rows, ret) ==
  [x |-> x, err |-> err, val |-> val, rows |-> rows, ret |-> ret]

\* A compiled statement: bound are the values its parameters have in the
\* store, given the values the caller passed for them; ready: it can be bound;
\* ran: it has been run since it was compiled.
FreeVm == [st |-> "free", k |-> "", bound |-> <<>>, given |-> <<>>, ready |-> FALSE,
           ran |-> FALSE, fins |-> 0]

\* sqlite3_prepare_v2(m_db, sql, -1, &m_stmt, nullptr) for the object s. The
\* texts: "INSERT INTO t (value) VALUES (?)", "DELETE FROM t WHERE value = ?",
\* "SELECT value FROM t ORDER BY id", "SELECT value FROM t WHERE value = ?
\* ORDER BY id" (SELECT_EQ), and one that does not compile.
sqlite3_prepare_v2(x, s, k) ==
  IF k = "INVALID" THEN [x |-> [x EXCEPT !.m_stmt[s] = NULLPTR], rc |-> "ERROR"]
  ELSE LET r == CHOOSE q \in Rids :
                  /\ x.vm[q].st = "free"
                  /\ \A p \in Rids : x.vm[p].st = "free" => q <= p
       IN [x |-> [x EXCEPT !.m_stmt[s] = r,
                           !.vm[r] = [st |-> "compiled", k |-> k,
                                      bound |-> [i \in 1..(IF k = "SELECT" THEN 0 ELSE 1)
                                                   |-> Null],
                                      given |-> [i \in 1..(IF k = "SELECT" THEN 0 ELSE 1)
                                                   |-> Null],
                                      ready |-> TRUE, ran |-> FALSE, fins |-> 0]],
           rc |-> "OK"]

sqlite3_finalize(x, r) ==
  [x EXCEPT !.vm[r].st = "finalized", !.vm[r].fins = @ + 1]

\* sqlite3_bind_*(m_stmt, index, value): SQLITE_MISUSE on a statement that was
\* run and not reset, SQLITE_RANGE on an index outside 1..parameter count.
sqlite3_bind(x, r, index, value) ==
  IF r = NULLPTR THEN [x |-> x, rc |-> "MISUSE"]
  ELSE IF ~x.vm[r].ready THEN [x |-> x, rc |-> "MISUSE"]
  ELSE IF index < 1 \/ index > Len(x.vm[r].bound) THEN [x |-> x, rc |-> "RANGE"]
  ELSE [x |-> [x EXCEPT !.vm[r].bound[index] = value], rc |-> "OK"]

\* sqlite3_step(m_stmt) called until it no longer returns SQLITE_ROW, at most
\* limit times. fault = n > 0: the store fails the n-th call (a constraint of
\* another table, SQLITE_BUSY, an I/O error). A statement that was run and not
\* reset starts over with the values it has. rows: the stored values of the
\* rows it stopped on.
sqlite3_step(x, r, limit, fault) ==
  IF r = NULLPTR THEN [x |-> x, rc |-> "MISUSE", rows |-> <<>>]
  ELSE LET v == x.vm[r]
           t == x.db.tbl
           y == [x EXCEPT !.vm[r].ready = FALSE, !.vm[r].ran = TRUE]
       IN CASE v.k \in {"SELECT", "SELECT_EQ"} ->
              \* "... WHERE value = ?" compares with the parameter; NULL equals
              \* nothing
              LET hit(row) == v.bound[1] # Null /\ row.value = v.bound[1]
                  src == IF v.k = "SELECT" THEN t ELSE SelectSeq(t, hit)
                  m   == IF limit < Len(src) + 1 THEN limit ELSE Len(src) + 1
                  got == IF fault \in 1..m THEN fault - 1
                         ELSE IF m <= Len(src) THEN m ELSE Len(src)
              IN [x |-> y,
                  rc |-> IF fault \in 1..m THEN "ERROR"
                         ELSE IF m <= Len(src) THEN "ROW" ELSE "DONE",
                  rows |-> [i \in 1..got |-> src[i].value]]
            [] v.k = "INSERT" ->
              IF fault = 1 THEN [x |-> y, rc |-> "ERROR", rows |-> <<>>]
              ELSE IF v.bound[1] # Null /\ \E i \in 1..Len(t) : t[i].value = v.bound[1]
              THEN [x |-> y, rc |-> "CONSTRAINT", rows |-> <<>>]
              ELSE LET id == MaxId(t) + 1
                   IN [x |-> [y EXCEPT !.db.tbl = Append(t, [id |-> id, value |-> v.bound[1],
                                                             given |-> v.given[1]]),
                                       !.db.rowid = id, !.db.changes = 1],
                       rc |-> "DONE", rows |-> <<>>]
            [] v.k = "DELETE" ->
              IF fault = 1 THEN [x |-> y, rc |-> "ERROR", rows |-> <<>>]
              ELSE LET keep(row) == row.value # v.bound[1]
                       t2 == SelectSeq(t, keep)
                   IN [x |-> [y EXCEPT !.db.tbl = t2, !.db.changes = Len(t) - Len(t2)],
                       rc |-> "DONE", rows |-> <<>>]

\* SqliteStatement(db, sql): if the text does not compile the constructor
\* raises and no object exists.
SqliteStatement_ctor(x, s, k) ==
  LET p == sqlite3_prepare_v2(x, s, k)
  IN SOut(p.x, IF p.rc = "OK" THEN NoError ELSE QueryError, 0, <<>>, "")

SqliteStatement_moveCtor(x, s, other) ==
  [x EXCEPT !.m_stmt[s] = x.m_stmt[other], !.m_stmt[other] = NULLPTR]

\* Variant: move-assignment that drops the statement it held.
moveAssign_without_finalize(x, s, other) ==
  IF s = other THEN x
  ELSE [x EXCEPT !.m_stmt[s] = x.m_stmt[other], !.m_stmt[other] = NULLPTR]

SqliteStatement_moveAssign(x, s, other) ==
  IF s = other THEN x
  ELSE LET y == IF x.m_stmt[s] # NULLPTR THEN sqlite3_finalize(x, x.m_stmt[s]) ELSE x
       IN [y EXCEPT !.m_stmt[s] = x.m_stmt[other], !.m_stmt[other] = NULLPTR]

\* ~SqliteStatement of the object s
SqliteStatement_destructor(x, s) ==
  IF x.m_stmt[s] # NULLPTR THEN sqlite3_finalize(x, x.m_stmt[s]) ELSE x

\* Variant: bind that does not look at what sqlite3_bind_* returned.
bind_without_check(x, s, index, value, nodata) ==
  SOut(sqlite3_bind(x, x.m_stmt[s], index, value).x, NoError, 0, <<>>, s)

\* bind(index, value) of each overload. A text is passed as value.c_str() with
\* length -1, a blob as blob.data() with blob.size(); nodata: data() of an
\* empty vector is the null pointer, which the store binds as NULL.
SqliteStatement_bind(x, s, index, value, nodata) ==
  LET arg == CASE value.t = "text" -> DbValue("text", UpToNul(value.v))
               [] value.t = "blob" /\ nodata -> Null
               [] OTHER -> value
      b == sqlite3_bind(x, x.m_stmt[s], index, arg)
  IN IF b.rc # "OK" THEN SOut(b.x, QueryError, 0, <<>>, "")
     ELSE SOut([b.x EXCEPT !.vm[x.m_stmt[s]].given[index] = value], NoError, 0, <<>>, s)

\* bindValue(index, value): std::visit to the overload of the active variant
SqliteStatement_bindValue(x, s, index, value, nodata) ==
  [SqliteStatement_bind(x, s, index, value, nodata) EXCEPT !.ret = ""]

\* extractColumn(col) on a stored value: the variant of its type; a text is
\* read as a C string.
extractColumn(value) ==
  CASE value.t = "text" -> DbValue("text", UpToNul(value.v))
    [] value.t \in {"null", "integer", "float", "blob"} -> value
    [] OTHER -> Null

\* Variant: execute() that returns the rows it has when the store fails.
execute_returns_partial(x, s, fault) ==
  LET r == sqlite3_step(x, x.m_stmt[s], Len(x.db.tbl) + 1, fault)
  IN SOut(r.x, NoError, 0, [i \in 1..Len(r.rows) |-> extractColumn(r.rows[i])], "")

SqliteStatement_execute(x, s, fault) ==
  LET r == sqlite3_step(x, x.m_stmt[s], Len(x.db.tbl) + 1, fault)
  IN IF r.rc # "DONE" THEN SOut(r.x, QueryError, 0, <<>>, "")
     ELSE SOut(r.x, NoError, 0, [i \in 1..Len(r.rows) |-> extractColumn(r.rows[i])], "")

\* Variant: executeInsert that returns the number of rows changed.
executeInsert_returns_changes(x, s, fault) ==
  LET r == sqlite3_step(x, x.m_stmt[s], 1, fault)
  IN IF r.rc \notin {"DONE", "ROW"} THEN SOut(r.x, QueryError, 0, <<>>, "")
     ELSE SOut(r.x, NoError, r.x.db.changes, <<>>, "")

SqliteStatement_executeInsert(x, s, fault) ==
  LET r == sqlite3_step(x, x.m_stmt[s], 1, fault)
  IN IF r.rc \notin {"DONE", "ROW"} THEN SOut(r.x, QueryError, 0, <<>>, "")
     ELSE SOut(r.x, NoError, r.x.db.rowid, <<>>, "")

SqliteStatement_executeUpdate(x, s, fault) ==
  LET r == sqlite3_step(x, x.m_stmt[s], 1, fault)
  IN IF r.rc \notin {"DONE", "ROW"} THEN SOut(r.x, QueryError, 0, <<>>, "")
     ELSE SOut(r.x, NoError, r.x.db.changes, <<>>, "")

\* Variant: reset() without sqlite3_clear_bindings.
reset_without_clear_bindings(x, s) ==
  LET r == x.m_stmt[s]
  IN [x EXCEPT !.vm[r].ready = TRUE, !.vm[r].given = [i \in DOMAIN @ |-> Null]]

\* reset(): sqlite3_reset, sqlite3_clear_bindings
SqliteStatement_reset(x, s) ==
  LET r == x.m_stmt[s]
  IN [x EXCEPT !.vm[r].ready = TRUE, !.vm[r].bound = [i \in DOMAIN @ |-> Null],
               !.vm[r].given = [i \in DOMAIN @ |-> Null]]

\* The loop body's binding of one parameter set: value i to index i + 1
\* (the i-th of 1..Len(params) here), stopping at the first bind that raises.
RECURSIVE BindValues(_, _, _, _)
BindValues(x, s, params, i) ==
  IF i > Len(params) THEN SOut(x, NoError, 0, <<>>, "")
  ELSE LET b == SqliteStatement_bindValue(x, s, i, params[i], FALSE)
       IN IF b.err # NoError THEN b ELSE BindValues(b.x, s, params, i + 1)

\* executeBatch(paramSets) of the object s, from set number n on: reset(),
\* bindValue for each value, sqlite3_step, totalChanges += sqlite3_changes.
\* fault = n > 0: the store fails the step of set n.
RECURSIVE executeBatch(_, _, _, _, _, _)
executeBatch(x, s, paramSets, n, totalChanges, fault) ==
  IF n > Len(paramSets) THEN SOut(x, NoError, totalChanges, <<>>, "")
  ELSE LET b == BindValues(SqliteStatement_reset(x, s), s, paramSets[n], 1)
       IN IF b.err # NoError THEN b
          ELSE LET r == sqlite3_step(b.x, b.x.m_stmt[s], 1, IF fault = n THEN 1 ELSE 0)
               IN IF r.rc \notin {"DONE", "ROW"} THEN SOut(r.x, QueryError, 0, <<>>, "")
                  ELSE executeBatch(r.x, s, paramSets, n + 1,
                                    totalChanges + r.x.db.changes, fault)

\* The loop of bulkSelect over the statement s, from set number n on:
\* stmt->reset(), bindValue for each value, stmt->execute(), append the rows.
RECURSIVE bulkSelect_loop(_, _, _, _, _)
bulkSelect_loop(x, s, paramSets, n, combinedResults) ==
  IF n > Len(paramSets) THEN SOut(x, NoError, 0, combinedResults, "")
  ELSE LET b == BindValues(SqliteStatement_reset(x, s), s, paramSets[n], 1)
       IN IF b.err # NoError THEN b
          ELSE LET r == SqliteStatement_execute(b.x, s, 0)
               IN IF r.err # NoError THEN r
                  ELSE bulkSelect_loop(r.x, s, paramSets, n + 1, combinedResults \o r.rows)

\* bulkSelect("SELECT value FROM t WHERE value = ?", paramSets); s is the
\* statement object the call creates and destroys.
bulkSelect(x, s, paramSets) ==
  IF paramSets = <<>> THEN SOut(x, NoError, 0, <<>>, "")
  ELSE LET p == SqliteStatement_ctor(x, s, "SELECT_EQ")
       IN IF p.err # NoError THEN p
          ELSE LET o == bulkSelect_loop(p.x, s, paramSets, 1, <<>>)
               IN [o EXCEPT !.x = SqliteStatement_destructor(o.x, s)]

\* No statement object exists; the table is empty.
NoStmt ==
  /\ s_live = [s \in StmtIds |-> FALSE]
  /\ m_stmt = [s \in StmtIds |-> NULLPTR]
  /\ vm = [r \in Rids |-> FreeVm]
  /\ s_db = [tbl |-> <<>>, rowid |-> 0, changes |-> 0]
  /\ s_res = [op |-> "", s |-> "", other |-> "", index |-> 0, value |-> Null,
              fault |-> 0, err |-> NoError, val |-> 0, rows |-> <<>>, ret |-> "",
              fins |-> 0, sets |-> <<>>]

----------------------------------------------------------------------------
(* Actions on handles: one per public operation of SqliteDatabase.         *)

Outcomes(p) == IF p = BadPath THEN {"cantopen", "nomem"} ELSE {"ok", "nomem"}

\* The guard refers to this handle.
GuardDb == "db1"

NoGuard ==
  /\ g_alive = FALSE /\ g_kind = "TransactionScope" /\ m_finished = FALSE
  /\ issued = <<>> /\ committed = FALSE /\ g_txn = FALSE /\ base = <<>>
  /\ inside = <<>> /\ inflight = NoError

\* The values a step appended to the table seen through GuardDb.
Appended(w2) ==
  LET c  == m_db[GuardDb]
      c2 == w2.m_db[GuardDb]
  IN IF c # NULLPTR /\ c2 = c /\ w2.conn[c].st = "open"
        /\ Len(w2.conn[c].tbl) > Len(conn[c].tbl)
     THEN SubSeq(ValsOf(w2.conn[c].tbl), Len(conn[c].tbl) + 1, Len(w2.conn[c].tbl))
     ELSE <<>>

\* Whether the transaction that was active on GuardDb is still active in w2.
SameTxn(w2) ==
  LET c == m_db[GuardDb]
  IN /\ c # NULLPTR /\ w2.m_db[GuardDb] = c
     /\ w2.conn[c].st = "open" /\ w2.conn[c].txn

\* Book-keeping of what happened in a guard's scope (no program state): kept
\* while the guard is alive and through its destruction, dropped afterwards.
ScopeStep(w2) ==
  IF g_alive
  THEN /\ g_txn' = (g_txn /\ SameTxn(w2))
       /\ inside' = IF g_txn THEN inside \o Appended(w2) ELSE inside
       /\ UNCHANGED <<g_alive, g_kind, m_finished, issued, committed, base, inflight>>
  ELSE /\ g_alive' = FALSE /\ g_kind' = "TransactionScope" /\ m_finished' = FALSE
       /\ issued' = <<>> /\ committed' = FALSE /\ g_txn' = FALSE /\ base' = <<>>
       /\ inside' = <<>> /\ inflight' = NoError

\* res: the operation, its handle and argument, whether the handle was open
\* when it was called, and what it raised or returned.
Result(op, h, arg, r) ==
  [op |-> op, h |-> h, arg |-> arg, sets |-> <<>>, log |-> <<>>,
   pre |-> live[h] /\ m_db[h] # NULLPTR,
   err |-> r.err,
   val |-> IF op \in {"query", "bulkSelect"} THEN 0 ELSE r.val,
   rows |-> IF op \in {"query", "bulkSelect"} /\ r.err = NoError THEN r.val ELSE <<>>,
   swallowed |-> NoError, trace |-> <<>>]

NoResult(op, h, arg) ==
  [op |-> op, h |-> h, arg |-> arg, sets |-> <<>>, log |-> <<>>, pre |-> FALSE,
   err |-> NoError, val |-> 0, rows |-> <<>>, swallowed |-> NoError, trace |-> <<>>]

DoneBatch(op, h, arg, sets, r) ==
  /\ Install(r.w)
  /\ res' = [Result(op, h, arg, r) EXCEPT
               !.sets = sets, !.log = r.log,
               !.trace = IF op \in {"bulkInsert", "bulkExecute", "executeBatch", "addPoints"}
                         THEN r.w.ev ELSE <<>>]
  /\ ScopeStep(r.w)
  /\ wrote' = [wrote EXCEPT ![h] =
                 IF op \in {"ctor", "ctorPath", "moveCtor", "dtor"} THEN FALSE
                 ELSE @ \/ (op = "execute" /\ arg = "INSERT" /\ r.err = NoError)]

Done(op, h, arg, r) == DoneBatch(op, h, arg, <<>>, Bulk(r, <<>>))

\* Room for n more inserts below the model's cap on row identifiers.
MaxRowId == MaxVal + 1
RowIdRoom(h, n) ==
  IF m_db[h] = NULLPTR THEN TRUE ELSE MaxId(conn[m_db[h]].tbl) + n <= MaxRowId

\* The caller's side of the lifetime contract: a connection is given up only
\* after the statements prepared on it have been destroyed.
NoStatements(h) == IF m_db[h] = NULLPTR THEN TRUE ELSE stmts[m_db[h]] = 0

DefaultCtor(h) ==
  /\ ~live[h]
  /\ live' = [live EXCEPT ![h] = TRUE]
  /\ Done("ctor", h, "", Ok([World EXCEPT !.m_db[h] = NULLPTR]))

\* SqliteDatabase(path) { open(path); }: if open raises, no object exists.
PathCtor(h, p) ==
  /\ ~live[h]
  /\ HasFresh(World)
  /\ \E o \in Outcomes(p) :
       LET r == SqliteDatabase_open([World EXCEPT !.m_db[h] = NULLPTR], h, p, o)
       IN /\ live' = [live EXCEPT ![h] = (r.err = NoError)]
          /\ Done("ctorPath", h, p, r)

MoveCtor(h, other) ==
  /\ ~live[h] /\ live[other] /\ h # other
  /\ live' = [live EXCEPT ![h] = TRUE]
  /\ Done("moveCtor", h, other, Ok(SqliteDatabase_moveCtor(World, h, other)))

MoveAssign(h, other) ==
  /\ live[h] /\ live[other]
  /\ NoStatements(h)
  /\ Done("moveAssign", h, other, Ok(SqliteDatabase_moveAssign(World, h, other)))
  /\ UNCHANGED live

Dtor(h) ==
  /\ live[h]
  /\ NoStatements(h)
  /\ live' = [live EXCEPT ![h] = FALSE]
  /\ Done("dtor", h, "", Ok(SqliteDatabase_dtor(World, h)))

Open(h, p) ==
  /\ live[h]
  /\ NoStatements(h)
  /\ HasFresh(World)
  /\ \E o \in Outcomes(p) : Done("open", h, p, SqliteDatabase_open(World, h, p, o))
  /\ UNCHANGED live

Close(h) ==
  /\ live[h]
  /\ NoStatements(h)
  /\ Done("close", h, "", Ok(SqliteDatabase_close(World, h)))
  /\ UNCHANGED live

Execute(h, sql) ==
  /\ live[h]
  /\ RowIdRoom(h, 1)
  /\ Done("execute", h, sql.k, SqliteDatabase_execute(World, h, sql, FALSE))
  /\ UNCHANGED live

Prepare(h, sql) ==
  /\ live[h]
  /\ IF isOpen(World, h) THEN stmts[m_db[h]] < MaxStmts ELSE TRUE
  /\ Done("prepare", h, sql.k, SqliteDatabase_prepare(World, h, sql))
  /\ UNCHANGED live

StatementDtor(c) ==
  /\ stmts[c] > 0
  /\ Install(SqliteStatement_dtor(World, c))
  /\ res' = NoResult("stmtDtor", "db1", "")
  /\ ScopeStep(World)
  /\ UNCHANGED wrote
  /\ UNCHANGED live

Query(h, sql) ==
  /\ live[h]
  /\ Done("query", h, sql.k, SqliteDatabase_query(World, h, sql))
  /\ UNCHANGED live

BeginTransaction(h) ==
  /\ live[h]
  /\ Done("beginTransaction", h, "", SqliteDatabase_beginTransaction(World, h))
  /\ UNCHANGED live

Commit(h) ==
  /\ live[h]
  /\ \E cf \in BOOLEAN : Done("commit", h, "", SqliteDatabase_commit(World, h, cf))
  /\ UNCHANGED live

Rollback(h) ==
  /\ live[h]
  /\ Done("rollback", h, "", SqliteDatabase_rollback(World, h))
  /\ UNCHANGED live

EnableForeignKeys(h, enable) ==
  /\ live[h]
  /\ Done("enableForeignKeys", h, IF enable THEN "ON" ELSE "OFF",
          SqliteDatabase_enableForeignKeys(World, h, enable))
  /\ UNCHANGED live

SetJournalMode(h) ==
  /\ live[h]
  /\ Done("setJournalMode", h, "", SqliteDatabase_setJournalMode(World, h))
  /\ UNCHANGED live

LastInsertRowId(h) ==
  /\ live[h]
  /\ Done("lastInsertRowId", h, "", Ret(World, SqliteDatabase_lastInsertRowId(World, h)))
  /\ UNCHANGED live

ChangesCount(h) ==
  /\ live[h]
  /\ Done("changesCount", h, "", Ret(World, SqliteDatabase_changesCount(World, h)))
  /\ UNCHANGED live

----------------------------------------------------------------------------
(* SpecConn: the life of two handles over private in-memory targets and an *)
(* unopenable path.                                                        *)

InitConn ==
  /\ m_db = [h \in Handles |-> NULLPTR]
  /\ live = [h \in Handles |-> h = "db1"]
  /\ wrote = [h \in Handles |-> FALSE]
  /\ conn = [c \in ConnIds |-> FreeConn]
  /\ disk = <<>>
  /\ stmts = [c \in ConnIds |-> 0]
  /\ misuse = FALSE
  /\ overwrote = FALSE
  /\ res = NoResult("ctor", "db1", "")
  /\ NoGuard
  /\ NoStmt
  /\ NoLab

ConnPaths == {MemoryPath, BadPath}
ConnSql   == {InsertSql(1), InvalidSql}

NextConn ==
  \/ \E h \in Handles : DefaultCtor(h)
  \/ \E h \in Handles, p \in ConnPaths : PathCtor(h, p)
  \/ \E h, o \in Handles : MoveCtor(h, o)
  \/ \E h, o \in Handles : MoveAssign(h, o)
  \/ \E h \in Handles : Dtor(h)
  \/ \E h \in Handles, p \in ConnPaths : Open(h, p)
  \/ \E h \in Handles : Close(h)
  \/ \E h \in Handles, sql \in ConnSql : Execute(h, sql)
  \/ \E h \in Handles : LastInsertRowId(h)
  \/ \E h \in Handles : ChangesCount(h)

SpecConn == InitConn /\ [][NextConn]_vars

----------------------------------------------------------------------------
(* SpecOps: every public operation on one handle, open or closed, over the *)
(* file-backed target and an unopenable path; no guard.                    *)

OpsDb    == "db1"
OpsPaths == {FilePath, BadPath}
OpsSql   == {InsertSql(1), SelectSql, InvalidSql}

NextOps ==
  \/ \E p \in OpsPaths : Open(OpsDb, p)
  \/ Close(OpsDb)
  \/ \E sql \in OpsSql : Execute(OpsDb, sql)
  \/ \E sql \in OpsSql : Prepare(OpsDb, sql)
  \/ \E c \in ConnIds : StatementDtor(c)
  \/ \E sql \in OpsSql : Query(OpsDb, sql)
  \/ BeginTransaction(OpsDb)
  \/ Commit(OpsDb)
  \/ Rollback(OpsDb)
  \/ \E b \in BOOLEAN : EnableForeignKeys(OpsDb, b)
  \/ SetJournalMode(OpsDb)
  \/ LastInsertRowId(OpsDb)
  \/ ChangesCount(OpsDb)

SpecOps == InitConn /\ [][NextOps]_vars

----------------------------------------------------------------------------
(* SpecFk: one handle constructed with a path, opened, re-opened, closed   *)
(* and destroyed, with enableForeignKeys at top level and inside a         *)
(* transaction.                                                            *)

NextFk ==
  \/ \E p \in OpsPaths : PathCtor(OpsDb, p)
  \/ Dtor(OpsDb)
  \/ \E p \in OpsPaths : Open(OpsDb, p)
  \/ Close(OpsDb)
  \/ \E b \in BOOLEAN : EnableForeignKeys(OpsDb, b)
  \/ BeginTransaction(OpsDb)
  \/ Commit(OpsDb)
  \/ Rollback(OpsDb)
  \/ Execute(OpsDb, InsertSql(1))

SpecFk == InitConn /\ [][NextFk]_vars

----------------------------------------------------------------------------
(* Actions on a guard over GuardDb, and the bulk helpers.                  *)

GuardCtor(kind) ==
  /\ ~g_alive /\ live[GuardDb]
  /\ LET t == IF kind = "TransactionScope" THEN TransactionScope_ctor(World, GuardDb)
              ELSE Transaction_ctor(World, GuardDb)
     IN /\ Install(t.w)
        /\ res' = Result("guardCtor", GuardDb, kind, [err |-> t.err, val |-> 0])
        /\ g_alive' = (t.err = NoError)
        /\ g_kind' = IF t.err = NoError THEN kind ELSE "TransactionScope"
        /\ m_finished' = t.fin
        /\ g_txn' = (t.err = NoError)
        /\ base' = IF t.err = NoError THEN disk ELSE <<>>
  /\ issued' = <<>> /\ committed' = FALSE /\ inside' = <<>>
  /\ inflight' = NoError
  /\ UNCHANGED <<live, wrote>>

GuardCommit ==
  /\ g_alive /\ Len(issued) < MaxIssued
  /\ \E cf \in BOOLEAN :
       LET r == IF g_kind = "TransactionScope"
                THEN TransactionScope_commit(World, GuardDb, m_finished, cf)
                ELSE Transaction_commit(World, GuardDb, m_finished, cf)
       IN /\ Install(r.w)
          /\ res' = Result("guardCommit", GuardDb, "", [err |-> r.err, val |-> 0])
          /\ m_finished' = r.fin
          /\ issued' = issued \o r.log
          /\ committed' = (committed \/ r.err = NoError)
          /\ g_txn' = (g_txn /\ SameTxn(r.w))
  /\ UNCHANGED <<live, wrote, g_alive, g_kind, base, inside, inflight>>

GuardRollback ==
  /\ g_alive /\ g_kind = "TransactionScope" /\ Len(issued) < MaxIssued
  /\ LET r == TransactionScope_rollback(World, GuardDb, m_finished)
     IN /\ Install(r.w)
        /\ res' = Result("guardRollback", GuardDb, "", [err |-> r.err, val |-> 0])
        /\ m_finished' = r.fin
        /\ issued' = issued \o r.log
        /\ g_txn' = (g_txn /\ SameTxn(r.w))
  /\ UNCHANGED <<live, wrote, g_alive, g_kind, committed, base, inside, inflight>>

\* The guard's scope ends: by a return (how = "return") or because an error
\* raised in the scope unwinds it (how = "throw").
GuardDtor(how) ==
  /\ g_alive
  /\ LET r == IF g_kind = "TransactionScope"
              THEN TransactionScope_dtor(World, GuardDb, m_finished)
              ELSE Transaction_dtor(World, GuardDb, m_finished)
     IN /\ Install(r.w)
        /\ res' = [Result("guardDtor", GuardDb, how, [err |-> r.err, val |-> 0])
                     EXCEPT !.swallowed = r.swallowed]
        /\ issued' = issued \o r.log
        /\ g_txn' = (g_txn /\ SameTxn(r.w))
        /\ inflight' = IF r.err # NoError THEN r.err
                       ELSE IF how = "throw" THEN "runtime_error" ELSE NoError
  /\ g_alive' = FALSE
  /\ UNCHANGED <<live, wrote, g_kind, m_finished, committed, base, inside>>

\* The rows of a batch: one value each, or one value too many.  A call that
\* cannot prepare its statement or begin its transaction never reaches its
\* rows, so it is tried with at most one.
ParamSets == {<<v>> : v \in Vals} \cup {<<1, 1>>}
Batches   == UNION {[1..n -> ParamSets] : n \in 0..MaxBatch}

\* A failing COMMIT (cf) is drawn only for a call that gets as far as COMMIT.
BulkDone(op, h, arg, sets, cf, r) ==
  /\ cf => \E i \in 1..Len(r.log) : r.log[i] = "COMMIT"
  /\ DoneBatch(op, h, arg, sets, r)

Reaches(h) == IF m_db[h] = NULLPTR THEN FALSE ELSE ~conn[m_db[h]].txn

BulkInsert(h) ==
  /\ live[h]
  /\ RowIdRoom(h, MaxBatch)
  /\ \E tableOk \in BOOLEAN, rows \in Batches, cf \in BOOLEAN :
       /\ (tableOk /\ Reaches(h)) \/ Len(rows) <= 1
       /\ BulkDone("bulkInsert", h, IF tableOk THEN "INSERT" ELSE "INVALID", rows, cf,
                   SqliteDatabase_bulkInsert(World, h, tableOk, rows, cf))
  /\ UNCHANGED live

\* roomy: the caller makes bulk calls only while the table has room for a
\* whole batch of new rows.
BulkExecute(h, Sqls, Sets, roomy) ==
  /\ live[h]
  /\ \E sql \in Sqls, paramSets \in Sets, cf \in BOOLEAN :
       /\ IF roomy \/ sql.k = "INSERT" THEN RowIdRoom(h, MaxBatch) ELSE TRUE
       /\ (sql.k # "INVALID" /\ Reaches(h)) \/ Len(paramSets) <= 1
       /\ BulkDone("bulkExecute", h, sql.k, paramSets, cf,
                   SqliteDatabase_bulkExecute(World, h, sql, paramSets, cf))
  /\ UNCHANGED live

BulkSelect(h, Sqls, Sets) ==
  /\ live[h]
  /\ \E sql \in Sqls, paramSets \in Sets :
       /\ (sql.k = "SELECT" /\ m_db[h] # NULLPTR) \/ Len(paramSets) <= 1
       /\ BulkDone("bulkSelect", h, IF sql = SelectGeSql THEN "SELECT_GE" ELSE sql.k,
                   paramSets, FALSE,
                   SqliteDatabase_bulkSelect(World, h, sql, paramSets))
  /\ UNCHANGED live

----------------------------------------------------------------------------
(* Spec: one handle on the file-backed target, used at top level and       *)
(* inside the scope of a guard.                                            *)

Init ==
  /\ m_db = [h \in Handles |-> IF h = GuardDb THEN 1 ELSE NULLPTR]
  /\ live = [h \in Handles |-> h = GuardDb]
  /\ wrote = [h \in Handles |-> FALSE]
  /\ conn = [c \in ConnIds |->
               IF c = 1 THEN [FreeConn EXCEPT !.st = "open", !.path = FilePath,
                                              !.fk = TRUE]
               ELSE FreeConn]
  /\ disk = <<>>
  /\ stmts = [c \in ConnIds |-> 0]
  /\ misuse = FALSE
  /\ overwrote = FALSE
  /\ res = NoResult("ctorPath", GuardDb, FilePath)
  /\ NoGuard
  /\ NoStmt
  /\ NoLab

ScopeSql == {InsertSql(v) : v \in Vals} \cup {InvalidSql}

\* Inside a guard's scope the caller writes while the guard's transaction is
\* active, finishes the guard, gives up the transaction through the handle
\* (rollback(), close(), open()) or leaves; the raw beginTransaction() and
\* commit() are top-level code.
Next ==
  \/ \E kind \in {"TransactionScope", "Transaction"} : GuardCtor(kind)
  \/ GuardCommit
  \/ GuardRollback
  \/ \E how \in {"return", "throw"} : GuardDtor(how)
  \/ (g_alive => g_txn) /\ \E sql \in ScopeSql : Execute(GuardDb, sql)
  \/ ~g_alive /\ BeginTransaction(GuardDb)
  \/ ~g_alive /\ Commit(GuardDb)
  \/ Rollback(GuardDb)
  \/ Close(GuardDb)
  \/ Open(GuardDb, FilePath)

Spec == Init /\ [][Next]_vars

----------------------------------------------------------------------------
(* SpecBulk: the bulk helpers and the raw transaction control on one       *)
(* handle, at top level.                                                   *)

NextBulk ==
  \/ BulkInsert(GuardDb)
  \/ BulkExecute(GuardDb, {DeleteSql(0), InvalidSql}, Batches, TRUE)
  \/ BulkSelect(GuardDb, {SelectSql, InvalidSql}, {b \in Batches : Len(b) <= 1})
  \/ BeginTransaction(GuardDb)
  \/ Commit(GuardDb)
  \/ Rollback(GuardDb)
  \/ Close(GuardDb)
  \/ Open(GuardDb, FilePath)

SpecBulk == Init /\ [][NextBulk]_vars

----------------------------------------------------------------------------
(* SpecBulkExec: bulkExecute of an INSERT, an UPDATE and a DELETE on one   *)
(* handle, at top level and inside a transaction of the caller.            *)

\* Batches whose sets name the smallest or the largest value.
EndBatches == UNION {[1..n -> {<<1>>, <<MaxVal>>}] : n \in 0..MaxBatch}

NextBulkExec ==
  \/ BulkExecute(GuardDb, {InsertSql(0), UpdateSql(0), DeleteSql(0), InvalidSql},
                 EndBatches, FALSE)
  \/ BeginTransaction(GuardDb)
  \/ Rollback(GuardDb)

SpecBulkExec == Init /\ [][NextBulkExec]_vars

----------------------------------------------------------------------------
(* SpecBulkSelect: bulkSelect of a SELECT matching one row per parameter   *)
(* and of one matching several, on a table filled row by row.              *)

NextBulkSelect ==
  \/ \E v \in Vals : Execute(GuardDb, InsertSql(v))
  \/ BulkSelect(GuardDb, {SelectSql, SelectGeSql, InvalidSql}, Batches)
  \/ BeginTransaction(GuardDb)
  \/ Rollback(GuardDb)
  \/ Close(GuardDb)

SpecBulkSelect == Init /\ [][NextBulkSelect]_vars

----------------------------------------------------------------------------
(* SpecPoints: addPoints on a repository over one handle, at top level and *)
(* inside a transaction of the caller, on an open and on a closed handle.  *)

\* Lists of points: keys 1..MaxVal, and 0 for a point the store rejects.
PointLists == UNION {[1..n -> {<<v>> : v \in 0..MaxVal}] : n \in 0..MaxBatch}

AddPoints(h) ==
  /\ live[h]
  /\ RowIdRoom(h, MaxBatch)
  /\ \E points \in PointLists, cf \in BOOLEAN :
       BulkDone("addPoints", h, "REPLACE", points, cf,
                TimeSeriesRepository_addPoints(World, h, points, cf))
  /\ UNCHANGED live

NextPoints ==
  \/ AddPoints(GuardDb)
  \/ BeginTransaction(GuardDb)
  \/ Rollback(GuardDb)
  \/ Close(GuardDb)
  \/ Open(GuardDb, FilePath)

SpecPoints == Init /\ [][NextPoints]_vars

----------------------------------------------------------------------------
(* SpecOutlive: a caller that gives up a connection while statements       *)
(* prepared on it are alive: close(), open() again, move-assignment and    *)
(* destruction of the handle are called whatever statements exist.         *)

NextOutlive ==
  \/ \E h \in Handles : PathCtor(h, MemoryPath)
  \/ \E h \in Handles : Prepare(h, InsertSql(1))
  \/ \E c \in ConnIds : StatementDtor(c)
  \/ \E h \in Handles :
       /\ live[h]
       /\ Done("close", h, "", Ok(SqliteDatabase_close(World, h)))
       /\ UNCHANGED live
  \/ \E h \in Handles :
       /\ live[h] /\ HasFresh(World)
       /\ Done("open", h, MemoryPath, SqliteDatabase_open(World, h, MemoryPath, "ok"))
       /\ UNCHANGED live
  \/ \E h, other \in Handles :
       /\ live[h] /\ live[other]
       /\ Done("moveAssign", h, other, Ok(SqliteDatabase_moveAssign(World, h, other)))
       /\ UNCHANGED live
  \/ \E h \in Handles :
       /\ live[h]
       /\ live' = [live EXCEPT ![h] = FALSE]
       /\ Done("dtor", h, "", Ok(SqliteDatabase_dtor(World, h)))

SpecOutlive == InitConn /\ [][NextOutlive]_vars

----------------------------------------------------------------------------
(* SpecOwnBatch: executeBatch called by the caller on a statement of its   *)
(* own, outside and inside a transaction the caller begins and ends.       *)

OwnBatch(h, Sqls, Sets) ==
  /\ live[h]
  /\ RowIdRoom(h, MaxBatch)
  /\ \E sql \in Sqls, paramSets \in Sets :
       DoneBatch("executeBatch", h, sql.k, paramSets,
                 StatementExecuteBatch(World, h, sql, paramSets))
  /\ UNCHANGED live

NextOwnBatch ==
  \/ OwnBatch(GuardDb, {InsertSql(0), DeleteSql(0)}, Batches)
  \/ BeginTransaction(GuardDb)
  \/ Commit(GuardDb)
  \/ Rollback(GuardDb)

SpecOwnBatch == Init /\ [][NextOwnBatch]_vars

----------------------------------------------------------------------------
(* SpecNested: the three bulk helpers called at top level and inside a     *)
(* transaction the caller holds, begun by beginTransaction() or by a       *)
(* TransactionScope, with rows of the caller pending in it.                *)

\* The caller holds a transaction on the connection of GuardDb.
Nested == IF m_db[GuardDb] = NULLPTR THEN FALSE ELSE conn[m_db[GuardDb]].txn

NextNested ==
  \/ BeginTransaction(GuardDb)
  \/ GuardCtor("TransactionScope")
  \/ GuardDtor("return")
  \/ Rollback(GuardDb)
  \/ \E v \in {1, MaxVal} : Execute(GuardDb, InsertSql(v))
  \/ /\ Nested /\ RowIdRoom(GuardDb, MaxBatch)
     /\ \E rows \in EndBatches :
          BulkDone("bulkInsert", GuardDb, "INSERT", rows, FALSE,
                   SqliteDatabase_bulkInsert(World, GuardDb, TRUE, rows, FALSE))
     /\ UNCHANGED live
  \/ /\ Nested
     /\ \E sql \in {UpdateSql(0), DeleteSql(0)}, paramSets \in EndBatches :
          BulkDone("bulkExecute", GuardDb, sql.k, paramSets, FALSE,
                   SqliteDatabase_bulkExecute(World, GuardDb, sql, paramSets, FALSE))
     /\ UNCHANGED live
  \/ /\ Nested
     /\ \E sql \in {SelectSql, SelectGeSql}, paramSets \in EndBatches :
          BulkDone("bulkSelect", GuardDb, IF sql = SelectGeSql THEN "SELECT_GE" ELSE sql.k,
                   paramSets, FALSE,
                   SqliteDatabase_bulkSelect(World, GuardDb, sql, paramSets))
     /\ UNCHANGED live

SpecNested == Init /\ [][NextNested]_vars

----------------------------------------------------------------------------
(* Actions on statements: one per operation of SqliteStatement.            *)

dbVars == <<m_db, live, wrote, conn, disk, stmts, misuse, overwrote, res>>

\* The state after the operation op of the object s with the outcome o; alive:
\* the objects that exist after it. The memory of a compiled statement that
\* was finalized once and that no object points to goes back to the store.
\* s_res.fins: the number of sqlite3_finalize calls the operation made.
\* s_res.sets: the parameter sets given to a batch operation.
StmtDoneSets(op, s, other, index, value, fault, o, alive, sets) ==
  LET ms == [q \in StmtIds |-> IF alive[q] THEN o.x.m_stmt[q] ELSE NULLPTR]
  IN /\ s_live' = alive
     /\ m_stmt' = ms
     /\ vm' = [r \in Rids |->
                 IF /\ o.x.vm[r].st = "finalized" /\ o.x.vm[r].fins = 1
                    /\ \A q \in StmtIds : ms[q] # r
                 THEN FreeVm ELSE o.x.vm[r]]
     /\ s_db' = o.x.db
     /\ s_res' = [op |-> op, s |-> s, other |-> other, index |-> index,
                  value |-> value, fault |-> fault, err |-> o.err, val |-> o.val,
                  rows |-> o.rows, ret |-> o.ret,
                  fins |-> Cardinality({r \in Rids : o.x.vm[r].fins > vm[r].fins}),
                  sets |-> sets]
     /\ UNCHANGED <<dbVars, guardVars, labVars>>

StmtDone(op, s, other, index, value, fault, o, alive) ==
  StmtDoneSets(op, s, other, index, value, fault, o, alive, <<>>)

StmtCtor(s, k) ==
  /\ ~s_live[s]
  /\ \E r \in Rids : vm[r].st = "free"
  /\ LET o == SqliteStatement_ctor(StmtWorld, s, k)
     IN StmtDone("ctor", s, "", 0, Null, 0, o, [s_live EXCEPT ![s] = (o.err = NoError)])

StmtMoveCtor(s, other) ==
  /\ ~s_live[s]
  /\ s_live[other]
  /\ StmtDone("moveCtor", s, other, 0, Null, 0,
              SOut(SqliteStatement_moveCtor(StmtWorld, s, other), NoError, 0, <<>>, ""),
              [s_live EXCEPT ![s] = TRUE])

StmtMoveAssign(s, other) ==
  /\ s_live[s]
  /\ s_live[other]
  /\ StmtDone("moveAssign", s, other, 0, Null, 0,
              SOut(SqliteStatement_moveAssign(StmtWorld, s, other), NoError, 0, <<>>, ""),
              s_live)

StmtDtor(s) ==
  /\ s_live[s]
  /\ StmtDone("dtor", s, "", 0, Null, 0,
              SOut(SqliteStatement_destructor(StmtWorld, s), NoError, 0, <<>>, ""),
              [s_live EXCEPT ![s] = FALSE])

\* bind(index, value) or bindValue(index, value) with an index of Indexes and
\* a value of Values.
Bind(s, via, Indexes, Values) ==
  /\ s_live[s]
  /\ \E index \in Indexes, value \in Values, nodata \in BOOLEAN :
       /\ nodata => value = DbValue("blob", <<>>)
       /\ StmtDone(via, s, "", index, value, 0,
                   IF via = "bind"
                   THEN SqliteStatement_bind(StmtWorld, s, index, value, nodata)
                   ELSE SqliteStatement_bindValue(StmtWorld, s, index, value, nodata),
                   s_live)

\* The table has room for the row an INSERT adds, and a row identifier below
\* the model's cap for it.
RowRoom(s) ==
  IF m_stmt[s] = NULLPTR THEN TRUE
  ELSE vm[m_stmt[s]].k = "INSERT" =>
         Len(s_db.tbl) < MaxRows /\ MaxId(s_db.tbl) < MaxRowId

\* Faults: the calls of sqlite3_step the store may fail (0: none).
ExecuteStmt(s, Faults) ==
  /\ s_live[s]
  /\ RowRoom(s)
  /\ \E fault \in Faults \cap 0..(Len(s_db.tbl) + 1) :
       StmtDone("execute", s, "", 0, Null, fault,
                SqliteStatement_execute(StmtWorld, s, fault), s_live)

\* executeInsert() and executeUpdate() are for statements that produce no rows.
ExecuteInsert(s, Faults) ==
  /\ s_live[s]
  /\ RowRoom(s)
  /\ m_stmt[s] # NULLPTR => vm[m_stmt[s]].k # "SELECT"
  /\ \E fault \in Faults \cap 0..1 :
       StmtDone("executeInsert", s, "", 0, Null, fault,
                SqliteStatement_executeInsert(StmtWorld, s, fault), s_live)

ExecuteUpdate(s, Faults) ==
  /\ s_live[s]
  /\ RowRoom(s)
  /\ m_stmt[s] # NULLPTR => vm[m_stmt[s]].k # "SELECT"
  /\ \E fault \in Faults \cap 0..1 :
       StmtDone("executeUpdate", s, "", 0, Null, fault,
                SqliteStatement_executeUpdate(StmtWorld, s, fault), s_live)

Reset(s) ==
  /\ s_live[s]
  /\ m_stmt[s] # NULLPTR
  /\ StmtDone("reset", s, "", 0, Null, 0,
              SOut(SqliteStatement_reset(StmtWorld, s), NoError, 0, <<>>, ""), s_live)

\* executeBatch(paramSets) on a statement that produces no rows, while the
\* table has room for one row per set.
ExecuteBatch(s, Sets, Faults) ==
  /\ s_live[s]
  /\ m_stmt[s] # NULLPTR
  /\ vm[m_stmt[s]].k \in {"INSERT", "DELETE"}
  /\ \E paramSets \in Sets, fault \in Faults :
       /\ fault <= Len(paramSets)
       /\ vm[m_stmt[s]].k = "INSERT" =>
            /\ Len(s_db.tbl) + Len(paramSets) <= MaxRows
            /\ MaxId(s_db.tbl) + Len(paramSets) <= MaxRowId
       /\ StmtDoneSets("executeBatch", s, "", 0, Null, fault,
                       executeBatch(StmtWorld, s, paramSets, 1, 0, fault), s_live,
                       paramSets)

\* bulkSelect(sql, paramSets); the statement it prepares is the object s.
BulkSelectStmt(s, Sets) ==
  /\ ~s_live[s]
  /\ \E r \in Rids : vm[r].st = "free"
  /\ \E paramSets \in Sets :
       StmtDoneSets("bulkSelect", s, "", 0, Null, 0,
                    bulkSelect(StmtWorld, s, paramSets), s_live, paramSets)

----------------------------------------------------------------------------
(* SpecStmtLife: construction, moves and destruction of two statement      *)
(* objects.                                                                *)

NextStmtLife ==
  \/ \E s \in StmtIds, k \in {"INSERT", "SELECT", "INVALID"} : StmtCtor(s, k)
  \/ \E s, other \in StmtIds : StmtMoveCtor(s, other)
  \/ \E s, other \in StmtIds : StmtMoveAssign(s, other)
  \/ \E s \in StmtIds : StmtDtor(s)

SpecStmtLife == InitConn /\ [][NextStmtLife]_vars

----------------------------------------------------------------------------
(* SpecBind: bind and bindValue with indexes inside and outside the        *)
(* parameter count, on statements with no and with one parameter, new, run *)
(* and reset. The table stays empty.                                       *)

NextBind ==
  \/ \E k \in {"DELETE", "SELECT"} : StmtCtor("s1", k)
  \/ StmtDtor("s1")
  \/ \E via \in {"bind", "bindValue"} : Bind("s1", via, -1..2, DbValues)
  \/ ExecuteStmt("s1", {0})
  \/ ExecuteUpdate("s1", {0})
  \/ Reset("s1")

SpecBind == InitConn /\ [][NextBind]_vars

----------------------------------------------------------------------------
(* SpecStmt: values of every variant bound and inserted by one statement   *)
(* and read back by another; the store does not fail.                      *)

NextStmt ==
  \/ \E k \in {"INSERT", "SELECT"} : StmtCtor("s1", k)
  \/ StmtDtor("s1")
  \/ \E via \in {"bind", "bindValue"} : Bind("s1", via, {1}, DbValues)
  \/ ExecuteStmt("s1", {0})
  \/ ExecuteInsert("s1", {0})
  \/ Reset("s1")

SpecStmt == InitConn /\ [][NextStmt]_vars

----------------------------------------------------------------------------
(* SpecRun: one statement object at a time prepared, bound, run and reset  *)
(* on the table, with a store that may fail any call of sqlite3_step.      *)

RunValues == {Null, DbValue("integer", <<1>>), DbValue("text", <<1>>)}

NextRun ==
  \/ \E k \in {"INSERT", "DELETE", "SELECT"} : StmtCtor("s1", k)
  \/ StmtDtor("s1")
  \/ \E via \in {"bind", "bindValue"} : Bind("s1", via, {1}, RunValues)
  \/ ExecuteStmt("s1", 0..(MaxRows + 1))
  \/ ExecuteInsert("s1", {0, 1})
  \/ ExecuteUpdate("s1", {0, 1})
  \/ Reset("s1")

SpecRun == InitConn /\ [][NextRun]_vars

----------------------------------------------------------------------------
(* SpecBatch: executeBatch on one statement object, which the caller may   *)
(* have bound and run before, and bulkSelect on the same table; the store  *)
(* may fail the step of any set.                                           *)

BatchValues == {DbValue("integer", <<1>>), DbValue("text", <<1>>)}

\* Parameter sets with no value, one value, and one value too many.
BatchParams == {<<>>} \cup {<<v>> : v \in BatchValues}
                 \cup {<<DbValue("integer", <<1>>), DbValue("integer", <<1>>)>>}
BatchSets   == UNION {[1..n -> BatchParams] : n \in 0..MaxBatch}

NextBatch ==
  \/ StmtCtor("s1", "INSERT")
  \/ StmtDtor("s1")
  \/ Bind("s1", "bindValue", {1}, BatchValues)
  \/ ExecuteBatch("s1", BatchSets, {0, 1})
  \/ BulkSelectStmt("s2", {b \in BatchSets : \A i \in 1..Len(b) : Len(b[i]) <= 1})

SpecBatch == InitConn /\ [][NextBatch]_vars

----------------------------------------------------------------------------
(* Actions on the circular buffer, one caller: each applies one function   *)
(* and records the call; accepted and returned are the bytes of the        *)
(* successful puts and gets since the buffer was last emptied by init or   *)
(* clear.                                                                  *)

notLab == <<dbVars, guardVars, stmtVars>>

CbDone(op, arg, o, accepted, returned) ==
  /\ cb' = o.cb
  /\ cb_io' = [accepted |-> accepted, returned |-> returned, op |-> op, arg |-> arg,
               full |-> circular_buffer_is_full(cb),
               empty |-> circular_buffer_is_empty(cb),
               ret |-> o.ret, out |-> o.out]
  /\ UNCHANGED <<thr, gpio_ports, gpio_res, notLab>>

CbInit(hasBuffer, capacity) ==
  LET o == circular_buffer_init(cb, hasBuffer, capacity)
  IN CbDone("init", capacity, o,
            IF o.ret = 0 THEN <<>> ELSE cb_io.accepted,
            IF o.ret = 0 THEN <<>> ELSE cb_io.returned)

CbPut(data) ==
  /\ Len(cb_io.accepted) < MaxPuts \/ circular_buffer_is_full(cb)
  /\ LET o == circular_buffer_put(cb, data)
     IN CbDone("put", data, o,
               IF o.ret = 0 THEN Append(cb_io.accepted, data) ELSE cb_io.accepted,
               cb_io.returned)

CbGet(hasData) ==
  LET o == circular_buffer_get(cb, hasData)
  IN CbDone("get", IF hasData THEN 1 ELSE 0, o, cb_io.accepted,
            IF o.ret = 0 THEN Append(cb_io.returned, o.out) ELSE cb_io.returned)

CbClear ==
  CbDone("clear", 0, circular_buffer_clear(cb), <<>>, <<>>)

NextCb ==
  \/ \E hasBuffer \in BOOLEAN, capacity \in 0..MaxCapacity : CbInit(hasBuffer, capacity)
  \/ \E data \in Bytes : CbPut(data)
  \/ \E hasData \in BOOLEAN : CbGet(hasData)
  \/ CbClear

SpecCb == InitConn /\ [][NextCb]_vars

----------------------------------------------------------------------------
(* SpecCbThreads: a producer thread inside circular_buffer_put and a       *)
(* consumer thread inside circular_buffer_get on the same buffer. The      *)
(* functions take no lock and use no atomic access, so the threads          *)
(* interleave at every load and store of the shared fields; pc names the   *)
(* line of circular_buffer.c the thread executes next.                     *)

ThrDone(c, io, t) ==
  /\ cb' = c
  /\ cb_io' = io
  /\ thr' = t
  /\ UNCHANGED <<gpio_ports, gpio_res, notLab>>

Returned(op, arg, ret, out) ==
  [cb_io EXCEPT !.op = op, !.arg = arg, !.ret = ret, !.out = out,
                !.accepted = IF op = "put" /\ ret = 0 THEN Append(@, arg) ELSE @,
                !.returned = IF op = "get" /\ ret = 0 THEN Append(@, out) ELSE @]

PutCall(data) ==
  /\ thr.pc["producer"] = "idle"
  /\ thr.puts < MaxPuts
  /\ ThrDone(cb, cb_io, [thr EXCEPT !.pc["producer"] = "put_32", !.data = data])

\* if (cb->count >= cb->capacity) return -1;
PutTestFull ==
  /\ thr.pc["producer"] = "put_32"
  /\ IF cb.count >= cb.capacity
     THEN ThrDone(cb, Returned("put", thr.data, -1, 0),
                  [thr EXCEPT !.pc["producer"] = "idle"])
     ELSE ThrDone(cb, cb_io, [thr EXCEPT !.pc["producer"] = "put_37"])

\* cb->buffer[cb->head] = data; cb->head = (cb->head + 1) % cb->capacity;
PutWrite ==
  /\ thr.pc["producer"] = "put_37"
  /\ ThrDone([cb EXCEPT !.buffer[cb.head] = thr.data,
                        !.head = (cb.head + 1) % cb.capacity],
             cb_io, [thr EXCEPT !.pc["producer"] = "put_43"])

\* cb->count++: the load
PutLoadCount ==
  /\ thr.pc["producer"] = "put_43"
  /\ ThrDone(cb, cb_io, [thr EXCEPT !.pc["producer"] = "put_43_store",
                                    !.reg["producer"] = cb.count])

\* cb->count++: the store; return 0;
PutStoreCount ==
  /\ thr.pc["producer"] = "put_43_store"
  /\ ThrDone([cb EXCEPT !.count = thr.reg["producer"] + 1],
             Returned("put", thr.data, 0, 0),
             [thr EXCEPT !.pc["producer"] = "idle", !.puts = @ + 1])

GetCall ==
  /\ thr.pc["consumer"] = "idle"
  /\ ThrDone(cb, cb_io, [thr EXCEPT !.pc["consumer"] = "get_54"])

\* if (cb->count == 0) return -1;
GetTestEmpty ==
  /\ thr.pc["consumer"] = "get_54"
  /\ IF cb.count = 0
     THEN ThrDone(cb, Returned("get", 1, -1, 0), [thr EXCEPT !.pc["consumer"] = "idle"])
     ELSE ThrDone(cb, cb_io, [thr EXCEPT !.pc["consumer"] = "get_59"])

\* *data = cb->buffer[cb->tail]; cb->tail = (cb->tail + 1) % cb->capacity;
GetRead ==
  /\ thr.pc["consumer"] = "get_59"
  /\ ThrDone([cb EXCEPT !.tail = (cb.tail + 1) % cb.capacity], cb_io,
             [thr EXCEPT !.pc["consumer"] = "get_65", !.out = cb.buffer[cb.tail]])

\* cb->count--: the load
GetLoadCount ==
  /\ thr.pc["consumer"] = "get_65"
  /\ ThrDone(cb, cb_io, [thr EXCEPT !.pc["consumer"] = "get_65_store",
                                    !.reg["consumer"] = cb.count])

\* cb->count--: the store; return 0; (the value loaded is at least 1: the
\* test of line 54 passed and only this thread makes count smaller)
GetStoreCount ==
  /\ thr.pc["consumer"] = "get_65_store"
  /\ thr.reg["consumer"] >= 1
  /\ ThrDone([cb EXCEPT !.count = thr.reg["consumer"] - 1],
             Returned("get", 1, 0, thr.out),
             [thr EXCEPT !.pc["consumer"] = "idle", !.gets = @ + 1])

NextCbThreads ==
  \/ \E data \in Bytes : PutCall(data)
  \/ PutTestFull
  \/ PutWrite
  \/ PutLoadCount
  \/ PutStoreCount
  \/ GetCall
  \/ GetTestEmpty
  \/ GetRead
  \/ GetLoadCount
  \/ GetStoreCount

SpecCbThreads == InitConn /\ [][NextCbThreads]_vars

----------------------------------------------------------------------------
(* SpecGpio: the GPIO driver called with ports and pins in and out of      *)
(* range; was and level are what gpio_read gives for the pin before and    *)
(* after the call (-1: gpio_read fails).                                   *)

ArgPorts == {0, MAX_PORTS}
ArgPins  == {0, MAX_PINS - 1, MAX_PINS}

Level(g, port, pin) ==
  LET rd == gpio_read(g, port, pin, TRUE) IN IF rd.ret = 0 THEN rd.out ELSE -1

GpioDone(op, port, pin, state, o) ==
  /\ gpio_ports' = o.g
  /\ gpio_res' = [op |-> op, port |-> port, pin |-> pin, state |-> state,
                  ret |-> o.ret, out |-> o.out,
                  was |-> Level(gpio_ports, port, pin), level |-> Level(o.g, port, pin)]
  /\ UNCHANGED <<cb, cb_io, thr, notLab>>

GpioInit(hasConfig, port, pin, dir, pull_up) ==
  GpioDone("init", port, pin, dir, gpio_init(gpio_ports, hasConfig, port, pin, dir, pull_up))

GpioWrite(port, pin, state) ==
  GpioDone("write", port, pin, state, gpio_write(gpio_ports, port, pin, state))

GpioRead(port, pin, hasState) ==
  GpioDone("read", port, pin, 0, gpio_read(gpio_ports, port, pin, hasState))

GpioToggle(port, pin) ==
  GpioDone("toggle", port, pin, 0, gpio_toggle(gpio_ports, port, pin))

GpioSimulateInput(port, pin, state) ==
  GpioDone("simulate_input", port, pin, state,
           gpio_simulate_input(gpio_ports, port, pin, state))

NextGpio ==
  \/ \E hasConfig \in BOOLEAN, port \in ArgPorts, pin \in ArgPins,
        dir \in {GPIO_INPUT, GPIO_OUTPUT}, pull_up \in BOOLEAN :
       GpioInit(hasConfig, port, pin, dir, pull_up)
  \/ \E port \in ArgPorts, pin \in ArgPins, state \in {GPIO_LOW, GPIO_HIGH} :
       GpioWrite(port, pin, state)
  \/ \E port \in ArgPorts, pin \in ArgPins, hasState \in BOOLEAN :
       GpioRead(port, pin, hasState)
  \/ \E port \in ArgPorts, pin \in ArgPins : GpioToggle(port, pin)
  \/ \E port \in ArgPorts, pin \in ArgPins, state \in {GPIO_LOW, GPIO_HIGH} :
       GpioSimulateInput(port, pin, state)

SpecGpio == InitConn /\ [][NextGpio]_vars

----------------------------------------------------------------------------
(* Properties of the handle's life cycle (SpecConn, SpecOps).              *)

Owners(c) == {h \in Handles : live[h] /\ m_db[h] = c}

\* C6: a handle owns at most one native connection and none is leaked over
\* open, close, move and destruction: every open connection is owned by
\* exactly one live handle, every pointer a handle holds is to an open
\* connection, no connection is released twice, no pointer to a connection is
\* overwritten by sqlite3_open, and an open() that succeeds (on an open handle
\* too) leaves isOpen() true.
C6_OneConnectionNoLeak ==
  /\ \A c \in ConnIds : conn[c].st = "open" => Cardinality(Owners(c)) = 1
  /\ \A h \in Handles :
       m_db[h] # NULLPTR => live[h] /\ conn[m_db[h]].st = "open"
  /\ ~misuse
  /\ ~overwrote
  /\ res.op \in {"open", "ctorPath"} /\ res.err = NoError => m_db[res.h] # NULLPTR

\* open() has just succeeded on a handle that was open and had inserted a
\* row through the connection it replaced.
C6_Witness ==
  /\ res.op = "open" /\ res.pre /\ res.err = NoError
  /\ wrote[res.h] /\ m_db[res.h] # NULLPTR

\* C7: whenever open(path) (or the constructor that calls it) raises, the
\* handle is closed afterwards and the error is ConnectionError; an
\* unopenable target always raises, and no connection object of a failed
\* open survives.
C7_FailedOpenLeavesClosed ==
  /\ res.op \in {"open", "ctorPath"} /\ res.err # NoError
       => res.err = ConnectionError /\ m_db[res.h] = NULLPTR
  /\ res.op \in {"open", "ctorPath"} /\ res.arg = BadPath => res.err = ConnectionError
  /\ \A c \in ConnIds : conn[c].st = "open" => conn[c].path # BadPath

\* open() of the unopenable path has just raised on a handle that was open.
C7_Witness ==
  res.op = "open" /\ res.pre /\ res.arg = BadPath /\ res.err = ConnectionError

\* C8: close() never raises and leaves the handle closed; on a handle that is
\* already closed (closed before, never opened, or moved from) it changes
\* nothing; on an open handle it releases the connection. Destruction does
\* the same: it releases the connection exactly when the handle is open.
C8_CloseIdempotent ==
  [][res'.op \in {"close", "dtor"} =>
       /\ res'.err = NoError
       /\ m_db'[res'.h] = NULLPTR
       /\ IF res'.pre
          THEN /\ conn'[m_db[res'.h]].st # "open"
               /\ \A c \in ConnIds \ {m_db[res'.h]} : conn'[c] = conn[c]
          ELSE UNCHANGED <<m_db, conn, disk, stmts, misuse>>]_vars

\* close() has just been called on a handle that had inserted a row and was
\* closed already.
C8_Witness ==
  res.op = "close" /\ ~res.pre /\ wrote[res.h] /\ res.err = NoError

ClosedOps == {"prepare", "execute", "query", "beginTransaction", "commit",
              "rollback", "enableForeignKeys", "setJournalMode"}

\* C9: on a closed handle prepare, execute, query, beginTransaction, commit,
\* rollback, enableForeignKeys and setJournalMode raise ConnectionError,
\* create no statement, touch no connection and leave the handle closed.
C9_ClosedHandleRaises ==
  [][res'.op \in ClosedOps /\ ~res'.pre =>
       /\ res'.err = ConnectionError
       /\ m_db'[res'.h] = NULLPTR
       /\ UNCHANGED <<m_db, conn, disk, stmts, misuse>>]_vars

\* setJournalMode() has just raised ConnectionError on a handle that was
\* closed after it had inserted a row.
C9_Witness ==
  /\ res.op = "setJournalMode" /\ ~res.pre /\ res.err = ConnectionError
  /\ wrote[res.h] /\ disk # <<>>

\* C10: lastInsertRowId() and changesCount() return 0 and raise nothing
\* whenever the handle is closed.
C10_ClosedMetadataZero ==
  res.op \in {"lastInsertRowId", "changesCount"} /\ ~res.pre
    => res.val = 0 /\ res.err = NoError

\* lastInsertRowId() has just returned 0 on a closed handle that had
\* inserted a row through an earlier connection.
C10_Witness ==
  res.op = "lastInsertRowId" /\ ~res.pre /\ wrote[res.h] /\ res.val = 0

----------------------------------------------------------------------------
(* Properties of the transaction guard (Spec).                             *)

TxnActive(h) == IF m_db[h] = NULLPTR THEN FALSE ELSE conn[m_db[h]].txn

\* C1: a guard constructed on an open database with no transaction active
\* leaves no transaction active on the connection once it has been
\* destroyed, however its scope ended: after commit(), after rollback(),
\* after neither, by a return or by an error, and also when a commit() or
\* rollback() raised.
C1_NoTransactionAfterScope ==
  res.op = "guardDtor" => ~TxnActive(GuardDb)

\* An error unwinds the scope of a guard whose commit() raised after rows
\* were written; the destructor has rolled back on the open connection.
C1_Witness ==
  /\ res.op = "guardDtor" /\ res.arg = "throw" /\ ~m_finished
  /\ inside # <<>> /\ issued = <<"COMMIT", "ROLLBACK">>
  /\ m_db[GuardDb] # NULLPTR /\ res.swallowed = NoError

C4_Original ==
  [][g_alive /\ m_finished => issued' = issued]_vars

\* C4 as the code has it: the destructor issues ROLLBACK exactly when no
\* commit() or rollback() of the guard has succeeded (and the database is
\* open), and nothing otherwise; the finished flag is set only by a commit()
\* or rollback() that succeeded and is never cleared; commit() and rollback()
\* issue their statement on every call on an open database, and on a
\* finished guard that statement fails, the call raises and neither the
\* connection nor the persisted rows change.
C4_FinalizedOnceByFlag ==
  [][/\ res'.op = "guardDtor" =>
          issued' = issued \o (IF m_finished \/ ~res'.pre THEN <<>>
                               ELSE <<"ROLLBACK">>)
     /\ res'.op = "guardCommit" =>
          issued' = issued \o (IF res'.pre THEN <<"COMMIT">> ELSE <<>>)
     /\ res'.op = "guardRollback" =>
          issued' = issued \o (IF res'.pre THEN <<"ROLLBACK">> ELSE <<>>)
     /\ g_alive /\ m_finished => m_finished'
     /\ g_alive /\ ~m_finished /\ m_finished' =>
          res'.op \in {"guardCommit", "guardRollback"} /\ res'.err = NoError
     /\ g_alive /\ ~m_finished /\ res'.op \in {"guardCommit", "guardRollback"}
          /\ res'.err = NoError => m_finished'
     /\ g_alive /\ m_finished /\ res'.op \in {"guardCommit", "guardRollback"} =>
          res'.err # NoError /\ UNCHANGED <<m_db, conn, disk>>]_vars

\* rollback() has just been called on a guard that commit() had finished: a
\* second control statement was issued and the call raised.
C4_Witness ==
  /\ g_alive /\ m_finished /\ res.op = "guardRollback"
  /\ res.err = QueryError /\ issued = <<"COMMIT", "ROLLBACK">>

\* C5: destroying a guard never raises: an error of the destructor's
\* rollback is swallowed, so a normal exit stays normal and an error in
\* flight stays the error in flight.
C5_DestructorNeverRaises ==
  res.op = "guardDtor" =>
    /\ res.err = NoError
    /\ inflight = (IF res.arg = "throw" THEN "runtime_error" ELSE NoError)

\* An error unwinds the scope of an unfinished guard whose database was
\* closed meanwhile: the rollback's ConnectionError was swallowed.
C5_Witness ==
  /\ res.op = "guardDtor" /\ res.arg = "throw" /\ res.swallowed = ConnectionError
  /\ inflight = "runtime_error"

----------------------------------------------------------------------------
(* Properties of the bulk helpers (SpecBulk).                              *)

BulkOps == {"bulkInsert", "bulkExecute"}

\* Set number i of the batch cannot be bound or executed on a table holding
\* the values vs: it has more values than the statement has parameters, or
\* it inserts a value that the table or an earlier set of the batch holds.
SetFails(k, vs, sets, i) ==
  \/ Len(sets[i]) > ParamCount
  \/ /\ k = "INSERT"
     /\ sets[i][1] # 0
     /\ \/ sets[i][1] \in vs
        \/ \E j \in 1..(i - 1) : sets[j] = sets[i]

FirstValues(sets) == [i \in 1..Len(sets) |-> sets[i][1]]

\* The persisted values after every set of the batch has been applied to vals.
RECURSIVE Kept(_, _)
Kept(vals, gone) ==
  IF vals = <<>> THEN <<>>
  ELSE (IF Head(vals) \in gone THEN <<>> ELSE <<Head(vals)>>) \o Kept(Tail(vals), gone)

AllApplied(k, vals, sets) ==
  LET named == {sets[i][1] : i \in 1..Len(sets)}
  IN IF k = "INSERT" THEN vals \o FirstValues(sets)
     ELSE IF k = "UPDATE"
     THEN [i \in 1..Len(vals) |-> IF vals[i] \in named THEN 0 ELSE vals[i]]
     ELSE Kept(vals, named)

\* C3: bulkInsert and bulkExecute are all-or-nothing. A call on an open
\* database leaves the persisted rows and the connection's rows either as
\* they were or, when it returns normally, with every set of the batch
\* applied. If a set of the batch fails, at whatever position, the call
\* raises QueryError, the only control statements issued are BEGIN and
\* ROLLBACK (no COMMIT), no transaction is left active, and the tables hold
\* exactly what they held before the call.
C3_BulkAllOrNothing ==
  [][IF res'.op \in BulkOps /\ res'.pre
     THEN LET c    == m_db[res'.h]
              vals == ValsOf(conn[c].tbl)
              k    == res'.arg
          IN /\ \/ disk' = disk /\ conn'[c].tbl = conn[c].tbl
                \/ /\ res'.err = NoError
                   /\ ValsOf(disk') = AllApplied(k, vals, res'.sets)
                   /\ conn'[c].tbl = disk'
             /\ (/\ k \in {"INSERT", "DELETE", "UPDATE"} /\ ~conn[c].txn
                 /\ \E i \in 1..Len(res'.sets) :
                      SetFails(k, {vals[n] : n \in 1..Len(vals)}, res'.sets, i))
                =>
                 /\ res'.err = QueryError
                 /\ res'.log = <<"BEGIN", "ROLLBACK">>
                 /\ disk' = disk /\ conn'[c].tbl = conn[c].tbl
                 /\ ~conn'[c].txn
                 /\ m_db' = m_db /\ stmts' = stmts
     ELSE TRUE]_vars

\* bulkInsert has just raised on a batch whose first row was inserted and
\* whose second row repeats the value of the one persisted row: the row of
\* the batch is gone again.
C3_Witness ==
  /\ res.op = "bulkInsert" /\ res.err = QueryError
  /\ res.sets = << <<2>>, <<1>> >>
  /\ res.log = <<"BEGIN", "ROLLBACK">>
  /\ ValsOf(disk) = <<1>>
  /\ m_db[res.h] # NULLPTR /\ conn[m_db[res.h]].tbl = disk

----------------------------------------------------------------------------
(* Properties of the moves of a handle (SpecConn); res.arg is the source.  *)

\* C12: a connection has one owner at a time. Every move-construction and
\* every move-assignment from another handle leaves the destination with
\* exactly the pointer the source had (open if and only if the source was)
\* and the source closed; the connection the destination of a move-assignment
\* held before is no longer open; a move-assignment of a handle to itself
\* changes no pointer and no connection; after every step each open
\* connection has exactly one owner and no connection was closed twice.
C12_MoveTransfersOwnership ==
  [][/\ IF res'.op = "moveCtor" \/ (res'.op = "moveAssign" /\ res'.arg # res'.h)
        THEN /\ m_db'[res'.h] = m_db[res'.arg]
             /\ m_db'[res'.arg] = NULLPTR
             /\ IF res'.op = "moveAssign" /\ m_db[res'.h] # NULLPTR
                THEN conn'[m_db[res'.h]].st # "open"
                ELSE TRUE
        ELSE TRUE
     /\ IF res'.op = "moveAssign" /\ res'.arg = res'.h
        THEN UNCHANGED <<m_db, conn>>
        ELSE TRUE
     /\ ~misuse'
     /\ \A c \in ConnIds :
          conn'[c].st = "open" =>
            Cardinality({h \in Handles : live'[h] /\ m_db'[h] = c}) = 1]_vars

\* A move-assignment between two open handles: the destination now holds the
\* source's connection.
C12_Witness ==
  /\ res.op = "moveAssign" /\ res.arg # res.h /\ res.pre
  /\ m_db[res.h] # NULLPTR /\ m_db[res.arg] = NULLPTR

----------------------------------------------------------------------------
(* Properties of the statement objects (SpecStmtLife).                     *)

\* The live statement objects whose m_stmt is the compiled statement r.
StmtOwners(r) == {s \in StmtIds : s_live[s] /\ m_stmt[s] = r}

\* C11: every compiled statement is finalized exactly once. Over every
\* sequence of construction, move-construction, move-assignment (also of an
\* object to itself) and destruction: no compiled statement has been given to
\* sqlite3_finalize twice; one that is not finalized yet is owned by exactly
\* one live object, so none is left when every object is destroyed and a
\* move-assignment target has finalized what it held; an object points only
\* to a statement that is not finalized; the source of a move owns nothing
\* afterwards; a self-assignment finalizes nothing.
C11_FinalizedExactlyOnce ==
  /\ \A r \in Rids : vm[r].fins <= 1
  /\ \A r \in Rids : vm[r].st = "compiled" => Cardinality(StmtOwners(r)) = 1
  /\ \A s \in StmtIds :
       m_stmt[s] # NULLPTR => s_live[s] /\ vm[m_stmt[s]].st = "compiled"
  /\ s_res.op \in {"moveCtor", "moveAssign"} /\ s_res.s # s_res.other
       => m_stmt[s_res.other] = NULLPTR
  /\ s_res.op = "moveAssign" /\ s_res.s = s_res.other => s_res.fins = 0
  /\ s_res.op = "ctor" /\ s_res.err # NoError => ~s_live[s_res.s] /\ s_res.fins = 0

\* A move-assignment between two objects that both owned a compiled statement
\* has finalized the target's and handed over the source's.
C11_Witness ==
  /\ s_res.op = "moveAssign" /\ s_res.s # s_res.other
  /\ s_res.fins = 1
  /\ m_stmt[s_res.s] # NULLPTR /\ m_stmt[s_res.other] = NULLPTR

----------------------------------------------------------------------------
(* Properties of bind (SpecBind).                                          *)

\* C13: every bind and bindValue with an index below 1 or above the
\* statement's parameter count raises QueryError and changes nothing, for
\* every value and for statements with no and with one parameter, whether new,
\* run or reset; with an index in 1..parameter count on a statement that is
\* ready to be bound (new or reset) it raises nothing, and bind returns the
\* statement it was called on.
C13_BindIndexChecked ==
  [][IF s_res'.op \in {"bind", "bindValue"}
     THEN IF s_res'.index < 1 \/ s_res'.index > Len(vm[m_stmt[s_res'.s]].bound)
          THEN s_res'.err = QueryError /\ UNCHANGED <<m_stmt, vm, s_db>>
          ELSE IF vm[m_stmt[s_res'.s]].ready
          THEN /\ s_res'.err = NoError
               /\ s_res'.op = "bind" => s_res'.ret = s_res'.s
               /\ vm'[m_stmt[s_res'.s]].bound[s_res'.index].t \in {"null", s_res'.value.t}
          ELSE TRUE
     ELSE TRUE]_vars

\* bind(1, blob) has just succeeded on a statement with one parameter and
\* returned the statement.
C13_Witness ==
  /\ s_res.op = "bind" /\ s_res.index = 1 /\ s_res.value = DbValue("blob", <<0, 1>>)
  /\ s_res.err = NoError /\ s_res.ret = s_res.s
  /\ vm[m_stmt[s_res.s]].k = "DELETE"

----------------------------------------------------------------------------
(* Properties of the values bound, inserted and read back (SpecStmt).      *)

\* C14 as stated: a value of any of the five variants (a text and a blob not
\* empty) that was bound and inserted is read back by execute() of the SELECT
\* as the value the caller passed to bind: same variant, same content.
C14_RoundTripFiveVariants ==
  s_res.op = "execute" /\ s_res.err = NoError /\ vm[m_stmt[s_res.s]].k = "SELECT"
    => \A i \in 1..Len(s_db.tbl) :
         \/ (s_db.tbl[i].given.t \in {"text", "blob"} /\ s_db.tbl[i].given.v = <<>>)
         \/ s_res.rows[i] = s_db.tbl[i].given

\* C15 as stated: an empty text and a zero-length blob that were bound and
\* inserted are read back as the empty text and as the blob of zero bytes.
C15_ZeroLengthRoundTrip ==
  s_res.op = "execute" /\ s_res.err = NoError /\ vm[m_stmt[s_res.s]].k = "SELECT"
    => \A i \in 1..Len(s_db.tbl) :
         s_db.tbl[i].given.t \in {"text", "blob"} /\ s_db.tbl[i].given.v = <<>>
           => s_res.rows[i] = s_db.tbl[i].given

----------------------------------------------------------------------------
(* Properties of running and resetting a statement (SpecRun).              *)

\* The store reports a failure to the run of the statement s that s_res'
\* describes: the call of sqlite3_step it fails is reached, or the value of an
\* INSERT is in the table already.
StoreFails(s) ==
  LET v == vm[m_stmt[s]]
  IN IF v.k = "SELECT"
     THEN s_res'.fault \in 1..(IF s_res'.op = "execute" THEN Len(s_db.tbl) + 1 ELSE 1)
     ELSE \/ s_res'.fault = 1
          \/ /\ v.k = "INSERT" /\ v.bound[1] # Null
             /\ \E i \in 1..Len(s_db.tbl) : s_db.tbl[i].value = v.bound[1]

\* C16: no silent partial success. Whenever the store reports a failure to a
\* call of sqlite3_step, executeInsert, executeUpdate and execute raise
\* QueryError and return nothing: no row id, no count, and none of the rows
\* execute had accumulated before the failing call; the table is as before.
\* When the store reports none they raise nothing.
C16_NoPartialSuccess ==
  [][IF s_res'.op \in {"execute", "executeInsert", "executeUpdate"}
     THEN IF StoreFails(s_res'.s)
          THEN /\ s_res'.err = QueryError
               /\ s_res'.val = 0 /\ s_res'.rows = <<>>
               /\ s_db'.tbl = s_db.tbl
          ELSE s_res'.err = NoError
     ELSE TRUE]_vars

\* execute() of the SELECT has just raised on the second call of
\* sqlite3_step, after the first had produced a row.
C16_Witness ==
  /\ s_res.op = "execute" /\ s_res.fault = 2 /\ s_res.err = QueryError
  /\ vm[m_stmt[s_res.s]].k = "SELECT" /\ Len(s_db.tbl) >= 1

\* C17: reset() makes the statement ready again without compiling: after it
\* the object points to the same compiled statement, every parameter is null
\* whatever was bound, and the table is untouched; and every successful run of
\* the INSERT, any number of runs and resets on, adds one row that holds
\* exactly the value bound since the last reset (null if none was).
C17_ResetClearsAndReuses ==
  [][/\ IF s_res'.op = "reset"
        THEN /\ m_stmt' = m_stmt
             /\ vm'[m_stmt[s_res'.s]].k = vm[m_stmt[s_res'.s]].k
             /\ vm'[m_stmt[s_res'.s]].ready
             /\ \A i \in DOMAIN vm'[m_stmt[s_res'.s]].bound :
                  vm'[m_stmt[s_res'.s]].bound[i] = Null
             /\ s_db' = s_db
        ELSE TRUE
     /\ IF /\ s_res'.op \in {"execute", "executeInsert", "executeUpdate"}
           /\ s_res'.err = NoError
           /\ vm[m_stmt[s_res'.s]].k = "INSERT"
        THEN /\ Len(s_db'.tbl) = Len(s_db.tbl) + 1
             /\ s_db'.tbl[Len(s_db'.tbl)].value = vm[m_stmt[s_res'.s]].given[1]
             /\ \A i \in 1..Len(s_db.tbl) : s_db'.tbl[i] = s_db.tbl[i]
        ELSE TRUE]_vars

\* reset() has just been called on an INSERT statement that was run; the
\* table holds a row with a value that was bound.
C17_Witness ==
  /\ s_res.op = "reset"
  /\ vm[m_stmt[s_res.s]].k = "INSERT" /\ vm[m_stmt[s_res.s]].ran
  /\ vm[m_stmt[s_res.s]].bound = <<Null>>
  /\ Len(s_db.tbl) = 1 /\ s_db.tbl[1].value = DbValue("integer", <<1>>)

----------------------------------------------------------------------------
(* Properties of the bulk operations' results                              *)

\* C18 as stated: on success, bulkInsert of N rows (N >= 0) returns exactly
\* N, leaves exactly N additional rows queryable holding the supplied values
\* in the supplied order, and leaves no transaction active.
C18_Original ==
  [][IF res'.op = "bulkInsert" /\ res'.err = NoError
     THEN /\ res'.val = Len(res'.sets)
          /\ m_db' = m_db
          /\ IF res'.pre
             THEN LET c == m_db[res'.h]
                  IN /\ ValsOf(conn'[c].tbl) =
                          ValsOf(conn[c].tbl) \o FirstValues(res'.sets)
                     /\ ~conn'[c].txn
             ELSE res'.sets = <<>> /\ conn' = conn /\ disk' = disk
     ELSE TRUE]_vars

\* C18: on success, bulkInsert of N rows (N >= 0) returns exactly N and
\* leaves exactly N additional rows queryable holding the supplied values in
\* the supplied order. For N >= 1 the rows are persisted and no transaction
\* is active on return; for N = 0 the transaction state is left as it was,
\* so a transaction the caller began is still active.
C18_BulkInsertReturnsN ==
  [][IF res'.op = "bulkInsert" /\ res'.err = NoError
     THEN /\ res'.val = Len(res'.sets)
          /\ m_db' = m_db
          /\ IF res'.pre
             THEN LET c == m_db[res'.h]
                  IN /\ ValsOf(conn'[c].tbl) =
                          ValsOf(conn[c].tbl) \o FirstValues(res'.sets)
                     /\ IF res'.sets = <<>>
                        THEN conn'[c].txn = conn[c].txn /\ disk' = disk
                        ELSE ~conn[c].txn /\ ~conn'[c].txn /\ disk' = conn'[c].tbl
             ELSE res'.sets = <<>> /\ conn' = conn /\ disk' = disk
     ELSE TRUE]_vars

\* bulkInsert of the rows (2), (1) has just returned 2: the table holds the
\* two rows in the order supplied and no transaction is active.
C18_Witness ==
  /\ res.op = "bulkInsert" /\ res.err = NoError /\ res.pre
  /\ res.val = 2 /\ res.sets = <<(<<2>>), (<<1>>)>>
  /\ m_db[res.h] # NULLPTR
  /\ ~conn[m_db[res.h]].txn
  /\ ValsOf(conn[m_db[res.h]].tbl) = <<2, 1>>
  /\ ValsOf(disk) = <<2, 1>>

\* C19: with an empty list of rows or parameter sets, bulkInsert and
\* bulkExecute return 0 and bulkSelect returns an empty result at once: no
\* error is raised (not on a closed handle, not for SQL that does not compile,
\* not inside a transaction), no control statement is issued, no statement
\* object is created, and the handles, connections and persisted rows are
\* what they were.
C19_EmptyInputIsNoOp ==
  [][IF res'.op \in {"bulkInsert", "bulkExecute", "bulkSelect"} /\ res'.sets = <<>>
     THEN /\ res'.err = NoError
          /\ res'.val = 0
          /\ res'.rows = <<>>
          /\ res'.log = <<>>
          /\ m_db' = m_db /\ conn' = conn /\ disk' = disk
          /\ stmts' = stmts /\ misuse' = misuse /\ live' = live
     ELSE TRUE]_vars

\* bulkSelect has just returned an empty result for SQL that does not
\* compile and no parameter sets, inside a transaction the caller began.
C19_Witness ==
  /\ res.op = "bulkSelect" /\ res.sets = <<>> /\ res.arg = "INVALID"
  /\ res.err = NoError /\ res.rows = <<>> /\ res.log = <<>>
  /\ TxnActive(res.h)

\* C20: bulkSelect follows the one-statement, one-guard pattern of the other
\* bulk operations: called with a non-empty list of parameter sets and SQL
\* that compiles, on an open handle outside a transaction, it issues BEGIN
\* before its first execution and COMMIT or ROLLBACK before it returns or
\* raises.
C20_BulkSelectInTransaction ==
  [][IF /\ res'.op = "bulkSelect" /\ res'.sets # <<>>
        /\ res'.pre /\ res'.arg = "SELECT"
     THEN IF conn[m_db[res'.h]].txn THEN TRUE
          ELSE /\ Len(res'.log) >= 2
               /\ res'.log[1] = "BEGIN"
               /\ res'.log[Len(res'.log)] \in {"COMMIT", "ROLLBACK"}
     ELSE TRUE]_vars

\* The rows of vals, in their order, that the SELECT named by arg returns
\* for the parameter set params.
Matching(vals, arg, params) ==
  LET hit(v) == IF arg = "SELECT_GE" THEN v >= params[1] ELSE v = params[1]
  IN SelectSeq(vals, hit)

\* C21: on success bulkSelect returns the rows of the first parameter set's
\* execution, then those of the second, and so on; the rows of one execution
\* are in the order the store holds them, and a set that matches no row
\* contributes nothing.
C21_BulkSelectConcatenates ==
  [][IF res'.op = "bulkSelect" /\ res'.err = NoError /\ res'.pre
     THEN LET vals == ValsOf(conn[m_db[res'.h]].tbl)
              sets == res'.sets
              part(i) == Matching(vals, res'.arg, sets[i])
          IN /\ Len(sets) = 0 => res'.rows = <<>>
             /\ Len(sets) = 1 => res'.rows = part(1)
             /\ Len(sets) = 2 => res'.rows = part(1) \o part(2)
             /\ Len(sets) = 3 => res'.rows = part(1) \o part(2) \o part(3)
             /\ Len(sets) <= 3
     ELSE TRUE]_vars

\* bulkSelect of "v >= ?" for the sets (2), (1) has just returned on a table
\* holding 2 and then 1: one row for the first set, then both rows for the
\* second in the store's order.
C21_Witness ==
  /\ res.op = "bulkSelect" /\ res.err = NoError /\ res.arg = "SELECT_GE"
  /\ res.sets = <<(<<2>>), (<<1>>)>>
  /\ m_db[res.h] # NULLPTR
  /\ ValsOf(conn[m_db[res.h]].tbl) = <<2, 1>>
  /\ res.rows = <<2, 2, 1>>

\* bulkSelect of "v = ?" for the sets (2), (1) has just returned one row on
\* a table holding only 1: the first set contributed nothing.
C21_WitnessNoMatch ==
  /\ res.op = "bulkSelect" /\ res.err = NoError /\ res.arg = "SELECT"
  /\ res.sets = <<(<<2>>), (<<1>>)>>
  /\ m_db[res.h] # NULLPTR
  /\ ValsOf(conn[m_db[res.h]].tbl) = <<1>>
  /\ res.rows = <<1>>

----------------------------------------------------------------------------
(* Properties of bulkExecute                                               *)

\* The number of rows of vals that the statement of kind k changes for the
\* parameter value v, and the values the table holds afterwards.
AffectedBy(k, vals, v) ==
  IF k = "INSERT" THEN 1
  ELSE Cardinality({i \in 1..Len(vals) : vals[i] = v})
After(k, vals, v) == AllApplied(k, vals, <<(<<v>>)>>)

\* The sum, over the sets in order, of the rows each set's execution changes.
RECURSIVE SumAffected(_, _, _)
SumAffected(k, vals, sets) ==
  IF sets = <<>> THEN 0
  ELSE AffectedBy(k, vals, Head(sets)[1])
       + SumAffected(k, After(k, vals, Head(sets)[1]), Tail(sets))

\* C22: on success bulkExecute returns the sum over the parameter sets of
\* the rows changed by that set's execution (0 for a set that matches no
\* row), for an INSERT, an UPDATE and a DELETE alike; the changes of all the
\* sets are committed by one COMMIT and no transaction is left active.
C22_BulkExecuteSums ==
  [][IF res'.op = "bulkExecute" /\ res'.err = NoError /\ res'.pre
     THEN LET c    == m_db[res'.h]
              vals == ValsOf(conn[c].tbl)
              k    == res'.arg
          IN /\ res'.val = SumAffected(k, vals, res'.sets)
             /\ ValsOf(conn'[c].tbl) = AllApplied(k, vals, res'.sets)
             /\ IF res'.sets = <<>> THEN res'.log = <<>> /\ disk' = disk
                ELSE /\ res'.log = <<"BEGIN", "COMMIT">>
                     /\ disk' = conn'[c].tbl
                     /\ ~conn'[c].txn
     ELSE TRUE]_vars

\* bulkExecute of the UPDATE for the sets (1), (1) has just returned 1 on a
\* table that held 1 and 2: the second set matched no row.
C22_Witness ==
  /\ res.op = "bulkExecute" /\ res.err = NoError /\ res.arg = "UPDATE"
  /\ res.sets = <<(<<1>>), (<<1>>)>>
  /\ res.val = 1
  /\ ValsOf(disk) \in {<<0, 2>>, <<2, 0>>}

\* bulkExecute of the DELETE for the sets (2), (1) has just returned 2.
C22_WitnessDelete ==
  /\ res.op = "bulkExecute" /\ res.err = NoError /\ res.arg = "DELETE"
  /\ res.sets = <<(<<2>>), (<<1>>)>>
  /\ res.val = 2 /\ disk = <<>>

----------------------------------------------------------------------------
(* Properties of the foreign-key setting                                   *)

\* The setting of the connection handle h has after the step.
FkAfter(h) == conn'[m_db'[h]].fk

\* C23 as stated: after every successful open (construction with a path,
\* open on a closed handle, re-open) enforcement is ON for the new
\* connection; afterwards the setting equals the argument of the most recent
\* enableForeignKeys call on that connection.
C23_Original ==
  [][IF res'.err # NoError \/ m_db'[res'.h] = NULLPTR THEN TRUE
     ELSE IF res'.op \in {"ctorPath", "open"} THEN FkAfter(res'.h)
     ELSE IF res'.op = "enableForeignKeys" THEN FkAfter(res'.h) = (res'.arg = "ON")
     ELSE IF m_db'[res'.h] = m_db[res'.h] THEN FkAfter(res'.h) = conn[m_db[res'.h]].fk
     ELSE TRUE]_vars

\* C23: after every successful open enforcement is ON for the new
\* connection, whatever was set on an earlier one. A successful
\* enableForeignKeys outside a transaction makes the setting equal to its
\* argument; inside an active transaction it returns normally and leaves the
\* setting as it was. No other operation on the connection changes it.
C23_ForeignKeysOnAfterOpen ==
  [][IF res'.err # NoError \/ m_db'[res'.h] = NULLPTR THEN TRUE
     ELSE IF res'.op \in {"ctorPath", "open"}
     THEN FkAfter(res'.h) /\ IF m_db[res'.h] # NULLPTR /\ res'.pre
                             THEN m_db'[res'.h] # m_db[res'.h] ELSE TRUE
     ELSE IF res'.op = "enableForeignKeys"
     THEN IF conn[m_db[res'.h]].txn
          THEN FkAfter(res'.h) = conn[m_db[res'.h]].fk
          ELSE FkAfter(res'.h) = (res'.arg = "ON")
     ELSE IF m_db'[res'.h] = m_db[res'.h] THEN FkAfter(res'.h) = conn[m_db[res'.h]].fk
     ELSE TRUE]_vars

\* enableForeignKeys(false) has just returned normally inside a transaction
\* and enforcement is still ON.
C23_Witness ==
  /\ res.op = "enableForeignKeys" /\ res.arg = "OFF" /\ res.err = NoError
  /\ TxnActive(res.h)
  /\ conn[m_db[res.h]].fk

\* open has just returned normally on a handle that was open.
C23_WitnessReopen ==
  /\ res.op = "open" /\ res.err = NoError /\ res.pre
  /\ conn[m_db[res.h]].fk

----------------------------------------------------------------------------
(* Properties of SQL that does not compile                                 *)

\* C24: on an open handle prepare, execute and query with a text that does
\* not compile raise QueryError; the handle keeps its connection, which
\* stays open, the transaction state and the rows are what they were, and
\* the number of live compiled statements is what it was.
C24_InvalidSqlRaisesQueryError ==
  [][IF res'.op \in {"prepare", "execute", "query"} /\ res'.arg = "INVALID" /\ res'.pre
     THEN /\ res'.err = QueryError
          /\ m_db' = m_db /\ m_db'[res'.h] # NULLPTR
          /\ conn' = conn /\ conn'[m_db'[res'.h]].st = "open"
          /\ disk' = disk /\ stmts' = stmts /\ misuse' = misuse
     ELSE TRUE]_vars

\* query has just raised QueryError for a text that does not compile, inside
\* a transaction that is still active on the open handle.
C24_Witness ==
  /\ res.op = "query" /\ res.arg = "INVALID" /\ res.pre
  /\ res.err = QueryError
  /\ TxnActive(res.h)
  /\ stmts[m_db[res.h]] = 0

----------------------------------------------------------------------------
(* Properties of the identifiers executeInsert returns                     *)

\* executeInsert has just returned normally on a statement that inserts.
Inserted ==
  /\ s_res'.op = "executeInsert" /\ s_res'.err = NoError
  /\ m_stmt[s_res'.s] # NULLPTR
  /\ vm[m_stmt[s_res'.s]].k = "INSERT"

\* C25 as stated: executeInsert returns the identifier of the row it just
\* inserted, and the identifiers returned by successive successful inserts
\* on a connection are strictly increasing, whatever resets and deletes come
\* between them.
C25_Original ==
  [][IF Inserted
     THEN /\ s_db'.tbl[Len(s_db'.tbl)].id = s_res'.val
          /\ s_res'.val > s_db.rowid
     ELSE TRUE]_vars

\* C25: executeInsert returns the identifier of the row it just inserted,
\* which is one more than the largest identifier the table held, so no other
\* row has it. It is greater than the identifier returned by the previous
\* insert as long as a row with that or a larger identifier is still in the
\* table; after the rows with the largest identifiers are deleted the store
\* hands those identifiers out again.
C25_InsertIdAboveTable ==
  [][IF Inserted
     THEN /\ Len(s_db'.tbl) = Len(s_db.tbl) + 1
          /\ s_db'.tbl[Len(s_db'.tbl)].id = s_res'.val
          /\ s_res'.val = MaxId(s_db.tbl) + 1
          /\ s_res'.val = s_db'.rowid
          /\ \A i \in 1..Len(s_db.tbl) : s_db.tbl[i].id < s_res'.val
          /\ IF s_db.rowid <= MaxId(s_db.tbl) THEN s_res'.val > s_db.rowid ELSE TRUE
     ELSE TRUE]_vars

\* executeInsert has just returned 2 for the second row of the table.
C25_Witness ==
  /\ s_res.op = "executeInsert" /\ s_res.err = NoError
  /\ s_res.val = 2
  /\ Len(s_db.tbl) = 2
  /\ s_db.tbl[2].id = 2 /\ s_db.tbl[1].id = 1

----------------------------------------------------------------------------
(* Properties of the circular buffer                                       *)

\* The bytes the buffer holds, oldest first.
Pending == [i \in 1..cb.count |-> cb.buffer[(cb.tail + i - 1) % cb.capacity]]

\* C26: the buffer is first in, first out. The bytes returned by get are the
\* first bytes accepted by put, in the same order, and the bytes the buffer
\* still holds are the rest of the accepted bytes in order: every accepted
\* byte is returned once, also when head and tail have wrapped around the
\* end of the storage.
C26_Fifo ==
  /\ Len(cb_io.returned) <= Len(cb_io.accepted)
  /\ cb_io.returned = SubSeq(cb_io.accepted, 1, Len(cb_io.returned))
  /\ Pending = SubSeq(cb_io.accepted, Len(cb_io.returned) + 1, Len(cb_io.accepted))

\* Four bytes went through a buffer of two: the third get has just returned
\* the third byte, written after the head wrapped, and the fourth is held.
C26_Witness ==
  /\ cb.capacity = 2
  /\ cb_io.op = "get" /\ cb_io.ret = 0
  /\ cb_io.accepted = <<1, 0, 1, 0>>
  /\ cb_io.returned = <<1, 0, 1>>
  /\ cb.tail = 1 /\ cb.head = 0 /\ cb.count = 1

\* C27: put returns 0 exactly when count < capacity and -1 otherwise; get
\* returns 0 exactly when count > 0 and the output pointer is not NULL, and
\* -1 otherwise. A call that returns -1 leaves head, tail, count and the
\* stored bytes unchanged.
C27_FullAndEmptyRefused ==
  [][/\ IF cb_io'.op = "put"
        THEN /\ cb_io'.ret = IF cb.count < cb.capacity THEN 0 ELSE -1
             /\ IF cb_io'.ret = -1 THEN cb' = cb ELSE cb'.count = cb.count + 1
        ELSE TRUE
     /\ IF cb_io'.op = "get"
        THEN /\ cb_io'.ret = IF cb.count > 0 /\ cb_io'.arg = 1 THEN 0 ELSE -1
             /\ IF cb_io'.ret = -1 THEN cb' = cb ELSE cb'.count = cb.count - 1
        ELSE TRUE]_vars

\* put has just returned -1 on a full buffer of two bytes.
C27_Witness ==
  /\ cb_io.op = "put" /\ cb_io.ret = -1 /\ cb_io.full
  /\ cb.count = 2 /\ cb.capacity = 2

\* get has just returned -1 on an empty buffer whose head and tail have moved.
C27_WitnessEmpty ==
  /\ cb_io.op = "get" /\ cb_io.arg = 1 /\ cb_io.ret = -1 /\ cb_io.empty
  /\ cb.count = 0 /\ cb.head = 1 /\ cb.tail = 1

\* C38: after a successful init, whatever puts, gets, clears and further
\* inits follow and whether they succeed or fail, 0 <= count <= capacity,
\* head < capacity, tail < capacity and head = (tail + count) mod capacity;
\* size() is count, available() is capacity - count and not negative,
\* is_empty() holds exactly when count is 0 and is_full() exactly when count
\* is capacity; after clear the buffer is empty with head and tail at 0.
C38_BufferInvariant ==
  /\ cb.capacity >= 1
  /\ 0 <= cb.count /\ cb.count <= cb.capacity
  /\ 0 <= cb.head /\ cb.head < cb.capacity
  /\ 0 <= cb.tail /\ cb.tail < cb.capacity
  /\ cb.head = (cb.tail + cb.count) % cb.capacity
  /\ circular_buffer_size(cb) = cb.count
  /\ circular_buffer_available(cb) = cb.capacity - cb.count
  /\ circular_buffer_available(cb) >= 0
  /\ circular_buffer_is_empty(cb) <=> (cb.count = 0)
  /\ circular_buffer_is_full(cb) <=> (cb.count = cb.capacity)
  /\ cb_io.op = "clear" =>
       /\ cb_io.ret = 0
       /\ cb.count = 0 /\ cb.head = 0 /\ cb.tail = 0
       /\ circular_buffer_is_empty(cb)
       /\ circular_buffer_size(cb) = 0
       /\ circular_buffer_available(cb) = cb.capacity

\* put has just been refused on a full buffer of two bytes whose head has
\* wrapped and met the tail in the middle of the storage.
C38_Witness ==
  /\ cb_io.op = "put" /\ cb_io.ret = -1
  /\ cb.capacity = 2 /\ cb.count = 2 /\ cb.head = 1 /\ cb.tail = 1
  /\ circular_buffer_is_full(cb) /\ circular_buffer_available(cb) = 0

\* clear has just emptied a buffer that was full.
C38_WitnessClear ==
  /\ cb_io.op = "clear" /\ cb_io.full
  /\ cb.capacity = 2 /\ circular_buffer_size(cb) = 0

\* Neither thread is inside put or get.
BothIdle == \A t \in Threads : thr.pc[t] = "idle"

\* C28: the buffer is thread-safe. With one thread in put and another in get
\* on the same buffer, whenever both calls have returned count is the number
\* of successful puts minus the number of successful gets and is at most the
\* capacity, and the bytes returned are the first bytes accepted, in order.
C28_ThreadSafe ==
  BothIdle =>
    /\ cb.count = thr.puts - thr.gets
    /\ cb.count <= cb.capacity
    /\ Len(cb_io.returned) <= Len(cb_io.accepted)
    /\ cb_io.returned = SubSeq(cb_io.accepted, 1, Len(cb_io.returned))

----------------------------------------------------------------------------
(* Properties of the GPIO driver                                           *)

\* The pin of the call is in range and was initialised as an output.
IsOutput(g, port, pin) ==
  /\ port < MAX_PORTS /\ pin < MAX_PINS
  /\ pin \in g[port].initialized /\ pin \in g[port].direction

\* C29: gpio_write and gpio_toggle return 0 exactly on a pin in range that
\* was initialised as an output and -1 otherwise (never initialised,
\* initialised as input, port or pin >= 16); a call returning -1 changes no
\* register. After a successful write gpio_read gives the state written; a
\* successful toggle inverts what gpio_read gives, so a second toggle right
\* after it restores the state before the first.
C29_WriteNeedsOutputPin ==
  [][IF gpio_res'.op \in {"write", "toggle"}
     THEN /\ gpio_res'.ret = IF IsOutput(gpio_ports, gpio_res'.port, gpio_res'.pin)
                             THEN 0 ELSE -1
          /\ IF gpio_res'.ret = -1 THEN gpio_ports' = gpio_ports
             ELSE IF gpio_res'.op = "write" THEN gpio_res'.level = gpio_res'.state
             ELSE /\ gpio_res'.was \in {GPIO_LOW, GPIO_HIGH}
                  /\ gpio_res'.level = 1 - gpio_res'.was
                  /\ IF /\ gpio_res.op = "toggle" /\ gpio_res.ret = 0
                        /\ gpio_res.port = gpio_res'.port /\ gpio_res.pin = gpio_res'.pin
                     THEN gpio_res'.level = gpio_res.was
                     ELSE TRUE
     ELSE TRUE]_vars

\* gpio_toggle has just taken output pin 15 of port 0 from high to low.
C29_Witness ==
  /\ gpio_res.op = "toggle" /\ gpio_res.ret = 0
  /\ gpio_res.port = 0 /\ gpio_res.pin = MAX_PINS - 1
  /\ gpio_res.was = GPIO_HIGH /\ gpio_res.level = GPIO_LOW
  /\ (MAX_PINS - 1) \notin gpio_ports[0].output

\* gpio_write has just returned -1 on a pin initialised as an input.
C29_WitnessInput ==
  /\ gpio_res.op = "write" /\ gpio_res.ret = -1
  /\ gpio_res.port = 0 /\ gpio_res.pin = 0
  /\ 0 \in gpio_ports[0].initialized /\ 0 \notin gpio_ports[0].direction

----------------------------------------------------------------------------
(* Properties of a guard whose control statement fails                     *)

\* C30: commit() or rollback() of a guard that raises leaves the guard's
\* flag as it was, and one that returns sets it: the flag is set only after
\* the control statement has succeeded. The destructor of a guard whose flag
\* is not set calls rollback(), which issues ROLLBACK on an open handle; the
\* destructor of a finished guard issues nothing.
C30_FlagSetOnlyAfterSuccess ==
  [][IF res'.op \in {"guardCommit", "guardRollback"}
     THEN m_finished' = IF res'.err = NoError THEN TRUE ELSE m_finished
     ELSE IF res'.op = "guardDtor"
     THEN issued' = issued \o IF ~m_finished /\ m_db[GuardDb] # NULLPTR
                              THEN <<"ROLLBACK">> ELSE <<>>
     ELSE TRUE]_vars

\* A guard whose COMMIT failed has been destroyed: it was still unfinished,
\* and its destructor's ROLLBACK ended the transaction.
C30_Witness ==
  /\ res.op = "guardDtor" /\ ~g_alive /\ ~m_finished /\ ~committed
  /\ issued = <<"COMMIT", "ROLLBACK">>
  /\ res.swallowed = NoError

\* rollback() of a live guard has just raised and the guard is unfinished.
C30_WitnessRollback ==
  /\ res.op = "guardRollback" /\ res.err # NoError
  /\ g_alive /\ ~m_finished

----------------------------------------------------------------------------
(* Properties of a guard's construction                                    *)

\* C31: the constructor of a guard of either kind calls beginTransaction().
\* On a closed handle it raises ConnectionError, on a connection that has a
\* transaction active it raises QueryError, and otherwise it returns with
\* the transaction begun. When it raises no guard exists, the connection
\* (an outer transaction and its pending rows included), the persisted rows
\* and the handle are as before, and nothing is issued for the guard:
\* commit(), rollback() and the destructor run only on a guard that exists.
C31_FailedBeginMakesNoGuard ==
  [][IF res'.op = "guardCtor"
     THEN LET c == m_db[GuardDb]
          IN /\ res'.err = IF c = NULLPTR THEN ConnectionError
                           ELSE IF conn[c].txn THEN QueryError ELSE NoError
             /\ IF res'.err # NoError
                THEN /\ ~g_alive' /\ issued' = <<>>
                     /\ conn' = conn /\ disk' = disk /\ m_db' = m_db
                ELSE g_alive' /\ conn'[c].txn /\ conn'[c].tbl = conn[c].tbl
     ELSE IF res'.op \in {"guardCommit", "guardRollback", "guardDtor"}
     THEN g_alive
     ELSE TRUE]_vars

\* A guard's construction has just raised QueryError inside the caller's
\* own transaction, which is still active and holds a row not yet persisted.
C31_Witness ==
  /\ res.op = "guardCtor" /\ res.err = QueryError /\ ~g_alive
  /\ m_db[GuardDb] # NULLPTR
  /\ conn[m_db[GuardDb]].txn
  /\ Len(conn[m_db[GuardDb]].tbl) > Len(disk)

\* A guard's construction has just raised ConnectionError on a closed handle.
C31_WitnessClosed ==
  /\ res.op = "guardCtor" /\ res.err = ConnectionError /\ ~g_alive
  /\ m_db[GuardDb] = NULLPTR

----------------------------------------------------------------------------
(* Properties of the bulk helpers inside a transaction of the caller       *)

\* C32: bulkInsert and bulkExecute called with a non-empty list of sets on a
\* connection that has a transaction active raise QueryError; the only
\* control statement they issue is the BEGIN that fails, no set is executed
\* (rows, change counter and row identifier are as before), and the caller's
\* transaction is still active with its pending rows. bulkSelect called in
\* the same situation returns normally, issues no control statement and
\* returns the rows of the connection, the pending ones included.
C32_BulkInsideTransaction ==
  [][IF res'.sets # <<>> /\ res'.pre /\ TxnActive(GuardDb)
     THEN IF res'.op \in {"bulkInsert", "bulkExecute"}
          THEN /\ res'.err = QueryError
               /\ res'.log = <<"BEGIN">>
               /\ conn' = conn /\ disk' = disk /\ m_db' = m_db /\ stmts' = stmts
               /\ g_alive' = g_alive
          ELSE IF res'.op = "bulkSelect"
          THEN LET vals == ValsOf(conn[m_db[GuardDb]].tbl)
                   part(i) == Matching(vals, res'.arg, res'.sets[i])
               IN /\ res'.err = NoError
                  /\ res'.log = <<>>
                  /\ conn' = conn /\ disk' = disk
                  /\ res'.rows = IF Len(res'.sets) = 1 THEN part(1)
                                 ELSE IF Len(res'.sets) = 2 THEN part(1) \o part(2)
                                 ELSE part(1) \o part(2) \o part(3)
          ELSE TRUE
     ELSE TRUE]_vars

\* bulkInsert of two rows has just raised inside a live TransactionScope in
\* which the caller had written a row: the row is still pending.
C32_Witness ==
  /\ res.op = "bulkInsert" /\ Len(res.sets) = 2 /\ res.err = QueryError
  /\ g_alive /\ TxnActive(GuardDb)
  /\ Len(conn[m_db[GuardDb]].tbl) = 1 /\ disk = <<>>

\* bulkSelect has just returned a row that is pending in the caller's
\* transaction.
C32_WitnessSelect ==
  /\ res.op = "bulkSelect" /\ res.err = NoError /\ res.rows = <<MaxVal>>
  /\ TxnActive(GuardDb) /\ disk = <<>>

\* bulkExecute of a DELETE naming a row of the table has just raised inside
\* the caller's transaction.
C32_WitnessExecute ==
  /\ res.op = "bulkExecute" /\ res.arg = "DELETE" /\ res.err = QueryError
  /\ res.sets = <<(<<1>>)>> /\ TxnActive(GuardDb)
  /\ 1 \in RowVals(conn[m_db[GuardDb]].tbl)

----------------------------------------------------------------------------
(* Properties of the order of the store calls of a bulk helper             *)

\* C33: bulkInsert and bulkExecute called with at least one set make their
\* store calls in this order: compile the statement, BEGIN, one execution
\* per set in the order of the sets, COMMIT, finalize. On a closed handle or
\* with a text that does not compile they raise without any call after the
\* failed compilation, so without BEGIN. When BEGIN fails only the finalize
\* follows. When a set fails the executions are those of the sets before it
\* (and its own, if it failed in the store), then ROLLBACK, then finalize,
\* and there is no COMMIT. When COMMIT fails ROLLBACK and finalize follow.
C33_BulkStepOrder ==
  [][IF res'.op \in {"bulkInsert", "bulkExecute"} /\ res'.sets # <<>>
     THEN LET tr   == res'.trace
              n    == Len(tr)
              sets == res'.sets
              step(i) == Sql(res'.arg, IF sets[i] = <<>> THEN 0 ELSE sets[i][1])
              committing == \E i \in 1..n : tr[i] = CommitSql
          IN IF ~res'.pre \/ res'.arg = "INVALID"
             THEN /\ res'.err = IF res'.pre THEN QueryError ELSE ConnectionError
                  /\ tr = <<>>
             ELSE /\ n >= 3 /\ tr[1] = Compiled /\ tr[2] = BeginSql /\ tr[n] = Finalized
                  /\ IF res'.err = NoError
                     THEN /\ n = Len(sets) + 4
                          /\ \A i \in 1..Len(sets) : tr[2 + i] = step(i)
                          /\ tr[n - 1] = CommitSql
                     ELSE IF TxnActive(res'.h) THEN n = 3
                     ELSE IF committing
                     THEN /\ n = Len(sets) + 5
                          /\ \A i \in 1..Len(sets) : tr[2 + i] = step(i)
                          /\ tr[n - 2] = CommitSql /\ tr[n - 1] = RollbackSql
                     ELSE /\ n - 4 <= Len(sets)
                          /\ \A i \in 1..(n - 4) : tr[2 + i] = step(i)
                          /\ tr[n - 1] = RollbackSql
     ELSE TRUE]_vars

\* bulkInsert of the rows (1), (1) has just raised: the second execution
\* failed in the store, ROLLBACK followed and then the finalize.
C33_Witness ==
  /\ res.op = "bulkInsert" /\ res.err = QueryError
  /\ res.trace = <<Compiled, BeginSql, InsertSql(1), InsertSql(1), RollbackSql, Finalized>>

\* bulkExecute of a DELETE for two sets has just returned.
C33_WitnessCommit ==
  /\ res.op = "bulkExecute" /\ res.err = NoError
  /\ res.trace = <<Compiled, BeginSql, DeleteSql(1), DeleteSql(2), CommitSql, Finalized>>

\* bulkInsert has just raised ConnectionError on a closed handle.
C33_WitnessClosed ==
  /\ res.op = "bulkInsert" /\ res.sets # <<>> /\ res.err = ConnectionError
  /\ res.trace = <<>>

----------------------------------------------------------------------------
(* Properties of the batch loops (SpecBatch)                               *)

\* What a parameter set gives the statement's one parameter: its first
\* value, or NULL when the set has none.
Own(params) == IF params = <<>> THEN Null ELSE params[1]

\* Set number i of sets cannot be run on the table old: it has a value too
\* many, the store fails its step, or its value is already in the table or
\* in an earlier set.
BadSet(sets, i, old, fault) ==
  \/ Len(sets[i]) > 1
  \/ fault = i
  \/ /\ Own(sets[i]) # Null
     /\ \/ \E k \in 1..Len(old) : old[k].value = Own(sets[i])
        \/ \E k \in 1..(i - 1) : Own(sets[k]) = Own(sets[i])

\* The stored values of tbl equal to the value of params, in their order.
Equal(tbl, params) ==
  LET hit(row) == Own(params) # Null /\ row.value = Own(params)
      rows == SelectSeq(tbl, hit)
  IN [i \in 1..Len(rows) |-> rows[i].value]

\* C34: executeBatch of an INSERT adds one row per set it ran, and row i
\* holds exactly what set i gave: its value, or NULL when the set has no
\* value, whatever was bound to the statement before the call and whatever
\* the set before it bound; the rows the table had are untouched. It returns
\* normally, having run every set, exactly when no set has a value too many,
\* the store fails no step and no value is a duplicate. bulkSelect returns,
\* per set and in the order of the sets, the rows equal to that set's value,
\* and nothing for a set without a value.
C34_SetsRunWithOwnValues ==
  [][IF s_res'.op = "executeBatch"
     THEN LET sets == s_res'.sets
              old  == s_db.tbl
              new  == s_db'.tbl
              j    == Len(new) - Len(old)
          IN /\ j >= 0 /\ j <= Len(sets)
             /\ SubSeq(new, 1, Len(old)) = old
             /\ \A i \in 1..j : /\ new[Len(old) + i].value = Own(sets[i])
                                /\ new[Len(old) + i].given = Own(sets[i])
             /\ (s_res'.err = NoError) =
                  (\A i \in 1..Len(sets) : ~BadSet(sets, i, old, s_res'.fault))
             /\ s_res'.err = NoError => j = Len(sets) /\ s_res'.val = Len(sets)
     ELSE IF s_res'.op = "bulkSelect"
     THEN LET sets == s_res'.sets
              part(i) == Equal(s_db.tbl, sets[i])
          IN /\ s_res'.err = NoError /\ s_db' = s_db
             /\ s_res'.rows = IF Len(sets) = 0 THEN <<>>
                              ELSE IF Len(sets) = 1 THEN part(1)
                              ELSE IF Len(sets) = 2 THEN part(1) \o part(2)
                              ELSE part(1) \o part(2) \o part(3)
     ELSE TRUE]_vars

\* executeBatch of the sets ("1"), () has just added a row holding the text
\* and a row holding NULL.
C34_Witness ==
  /\ s_res.op = "executeBatch" /\ s_res.err = NoError
  /\ s_res.sets = <<(<<DbValue("text", <<1>>)>>), <<>>>>
  /\ Len(s_db.tbl) = 2
  /\ s_db.tbl[1].value = DbValue("text", <<1>>) /\ s_db.tbl[2].value = Null

\* bulkSelect of the sets (), (1) has just returned the one row holding 1.
C34_WitnessSelect ==
  /\ s_res.op = "bulkSelect" /\ s_res.err = NoError
  /\ s_res.sets = <<<<>>, (<<DbValue("integer", <<1>>)>>)>>
  /\ s_res.rows = <<DbValue("integer", <<1>>)>>
  /\ Len(s_db.tbl) = 2

----------------------------------------------------------------------------
(* Properties of executeBatch called by the caller (SpecOwnBatch)          *)

\* The number of the first set of sets that cannot be bound or executed on a
\* table holding vals (SetFails), or Len(sets) + 1 when every set can.
FirstFailing(k, vals, sets) ==
  LET bad == {i \in 1..Len(sets) : SetFails(k, {vals[n] : n \in 1..Len(vals)}, sets, i)}
  IN IF bad = {} THEN Len(sets) + 1
     ELSE CHOOSE i \in bad : \A n \in bad : i <= n

\* C35: executeBatch runs the sets in the order given and stops at the first
\* set whose bind or step fails, raising QueryError: the store sees the
\* executions of the sets before it, in order (and the failing execution
\* itself when it is the step that fails), and nothing else between the
\* compilation and the finalize of the caller's statement: no BEGIN, COMMIT
\* or ROLLBACK. The rows of the sets before the failing one are applied and
\* stay applied: outside a transaction they are persisted, inside the
\* caller's transaction they are pending in it, and the transaction is as
\* before. A ROLLBACK of the caller's transaction then removes them.
C35_BatchStopsAtFirstFailure ==
  [][IF res'.op = "executeBatch" /\ res'.pre
     THEN LET c     == m_db[res'.h]
              k     == res'.arg
              sets  == res'.sets
              vals  == ValsOf(conn[c].tbl)
              first == FirstFailing(k, vals, sets)
              steps == IF first <= Len(sets) /\ Len(sets[first]) <= ParamCount
                       THEN first ELSE first - 1
          IN /\ res'.err = IF first <= Len(sets) THEN QueryError ELSE NoError
             /\ res'.trace = <<Compiled>> \o [i \in 1..steps |-> Sql(k, sets[i][1])]
                               \o <<Finalized>>
             /\ ValsOf(conn'[c].tbl) = AllApplied(k, vals, SubSeq(sets, 1, first - 1))
             /\ conn'[c].txn = conn[c].txn
             /\ disk' = IF conn[c].txn THEN disk ELSE conn'[c].tbl
     ELSE IF res'.op = "rollback" /\ res'.err = NoError
     THEN conn'[m_db[res'.h]].tbl = disk /\ disk' = disk
     ELSE TRUE]_vars

\* executeBatch of the sets (2), (2) on the empty table has just raised
\* outside a transaction: the first set's row is in the table and persisted.
C35_Witness ==
  /\ res.op = "executeBatch" /\ res.arg = "INSERT" /\ res.err = QueryError
  /\ res.sets = <<(<<2>>), (<<2>>)>>
  /\ res.trace = <<Compiled, InsertSql(2), InsertSql(2), Finalized>>
  /\ ~TxnActive(GuardDb)
  /\ ValsOf(disk) = <<2>>

\* The same batch has just raised inside the caller's transaction: the first
\* set's row is pending in it.
C35_WitnessPending ==
  /\ res.op = "executeBatch" /\ res.arg = "INSERT" /\ res.err = QueryError
  /\ res.sets = <<(<<2>>), (<<2>>)>>
  /\ TxnActive(GuardDb)
  /\ ValsOf(conn[m_db[GuardDb]].tbl) = <<2>> /\ disk = <<>>

----------------------------------------------------------------------------
(* Properties of statements that outlive their handle (SpecOutlive)        *)

\* C36: close(), open() on an open handle, move-assignment to the handle
\* and its destruction, called while statements prepared on the handle's
\* connection are alive, return normally; afterwards the handle no longer
\* refers to that connection (closed, or open on another one); the
\* statements are not finalized: their number on the old connection is as
\* before, and the old connection stays as it was in the store. A statement
\* leaves its connection only by its own destruction.
C36_StatementsOutliveHandle ==
  [][IF res'.op \in {"close", "open", "moveAssign", "dtor"}
     THEN LET c == m_db[res'.h]
          IN IF c = NULLPTR THEN stmts' = stmts
             ELSE IF stmts[c] = 0 THEN stmts' = stmts
             ELSE IF res'.op = "moveAssign" /\ res'.arg = res'.h THEN UNCHANGED <<m_db, conn, stmts>>
             ELSE /\ res'.err = NoError
                  /\ m_db'[res'.h] # c
                  /\ res'.op \in {"close", "dtor"} => m_db'[res'.h] = NULLPTR
                  /\ stmts' = stmts
                  /\ conn'[c] = conn[c] /\ conn'[c].st = "open"
     ELSE IF res'.op = "stmtDtor"
     THEN \E c \in ConnIds : stmts[c] > 0 /\ stmts' = [stmts EXCEPT ![c] = @ - 1]
     ELSE IF res'.op = "prepare" /\ res'.err = NoError
     THEN stmts' = [stmts EXCEPT ![m_db[res'.h]] = @ + 1]
     ELSE stmts' = stmts]_vars

\* open() has just returned on a handle whose earlier connection has a live
\* statement: the handle is open on another connection, the statement is
\* still on the old one.
C36_Witness ==
  /\ res.op = "open" /\ res.pre /\ res.err = NoError
  /\ m_db[res.h] # NULLPTR
  /\ \E c \in ConnIds : /\ c # m_db[res.h] /\ stmts[c] > 0 /\ conn[c].st = "open"
                        /\ \A h \in Handles : m_db[h] # c

\* close() has just returned on such a handle: it reports closed.
C36_WitnessClose ==
  /\ res.op = "close" /\ res.pre /\ m_db[res.h] = NULLPTR
  /\ \E c \in ConnIds : /\ stmts[c] > 0 /\ conn[c].st = "open"
                        /\ \A h \in Handles : m_db[h] # c

----------------------------------------------------------------------------
(* Properties of TimeSeriesRepository::addPoints (SpecPoints)              *)

\* The keys vals after the points have replaced or joined them, in order.
RECURSIVE WithPoints(_, _)
WithPoints(vals, points) ==
  IF points = <<>> THEN vals
  ELSE LET v == Head(points)[1]
           keep(u) == u # v
       IN WithPoints(Append(SelectSeq(vals, keep), v), Tail(points))

\* C37: addPoints with an empty list makes no call into the store and
\* changes nothing. With a non-empty list on an open handle that has no
\* transaction active the store sees: the statement compiled, BEGIN, one
\* insert per point in order, COMMIT, the statement finalized, and the
\* points are persisted; or, when an insert or the COMMIT fails, the inserts
\* up to the failing one (or all and the COMMIT), then ROLLBACK, then the
\* finalize: the call raises QueryError, the table and the persisted rows are
\* as before the call and no transaction is active. When BEGIN fails because
\* the caller has a transaction active, the call raises without ROLLBACK and
\* the caller's transaction is untouched.
C37_AddPointsAllOrNothing ==
  [][IF res'.op = "addPoints"
     THEN LET points == res'.sets
              tr == res'.trace
              n  == Len(tr)
              c  == m_db[res'.h]
              ins(i) == ReplaceSql(points[i][1])
              bad == {i \in 1..Len(points) : points[i][1] = 0}
          IN IF points = <<>>
             THEN /\ res'.err = NoError /\ tr = <<>> /\ res'.log = <<>>
                  /\ UNCHANGED <<m_db, conn, disk, stmts>>
             ELSE IF ~res'.pre
             THEN /\ res'.err = ConnectionError /\ tr = <<>>
                  /\ UNCHANGED <<m_db, conn, disk, stmts>>
             ELSE IF conn[c].txn
             THEN /\ res'.err = QueryError /\ tr = <<Compiled, BeginSql, Finalized>>
                  /\ UNCHANGED <<m_db, conn, disk, stmts>>
             ELSE /\ ~conn'[c].txn /\ stmts' = stmts /\ m_db' = m_db
                  /\ disk' = conn'[c].tbl
                  /\ IF res'.err = NoError
                     THEN /\ bad = {}
                          /\ tr = <<Compiled, BeginSql>> \o [i \in 1..Len(points) |-> ins(i)]
                                    \o <<CommitSql, Finalized>>
                          /\ ValsOf(conn'[c].tbl) = WithPoints(ValsOf(conn[c].tbl), points)
                     ELSE /\ res'.err = QueryError
                          /\ conn'[c].tbl = conn[c].tbl /\ disk' = disk
                          /\ tr[n] = Finalized /\ tr[n - 1] = RollbackSql
                          /\ IF bad = {}
                             THEN tr = <<Compiled, BeginSql>>
                                         \o [i \in 1..Len(points) |-> ins(i)]
                                         \o <<CommitSql, RollbackSql, Finalized>>
                             ELSE LET f == CHOOSE i \in bad : \A k \in bad : i <= k
                                  IN tr = <<Compiled, BeginSql>> \o [i \in 1..f |-> ins(i)]
                                            \o <<RollbackSql, Finalized>>
     ELSE TRUE]_vars

\* addPoints of a good point and a rejected one has just raised on a table
\* that holds a row: the table is as before and no transaction is active.
C37_Witness ==
  /\ res.op = "addPoints" /\ res.err = QueryError
  /\ res.sets = <<(<<1>>), (<<0>>)>>
  /\ res.trace = <<Compiled, BeginSql, ReplaceSql(1), ReplaceSql(0), RollbackSql, Finalized>>
  /\ ~TxnActive(GuardDb)
  /\ ValsOf(conn[m_db[GuardDb]].tbl) = <<2>> /\ ValsOf(disk) = <<2>>

\* addPoints of two points has just raised because COMMIT failed.
C37_WitnessCommit ==
  /\ res.op = "addPoints" /\ res.err = QueryError
  /\ res.trace = <<Compiled, BeginSql, ReplaceSql(1), ReplaceSql(2), CommitSql,
                   RollbackSql, Finalized>>
  /\ ~TxnActive(GuardDb) /\ disk = <<>>

\* addPoints of two points has just returned and both are persisted.
C37_WitnessDone ==
  /\ res.op = "addPoints" /\ res.err = NoError /\ Len(res.sets) = 2
  /\ ValsOf(disk) = <<1, 2>>

====
